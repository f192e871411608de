----------------------------- MODULE ClientInput -----------------------------
(***************************************************************************)
(* The way of terminal input from clients to the serial port: handleTCP,   *)
(* handleTelnet and HandleWS, terminalInputWriter.Write and                *)
(* SerialGateway.Write, with what a Telnet client gets in return, answers  *)
(* to its negotiations and the output of the device (the writer goroutine  *)
(* of its subscriber).                                                     *)
(*                                                                         *)
(* A client's input arrives in reads, or messages, of any length.  A read  *)
(* is decoded, cut into units, and written unit by unit under writeMu,     *)
(* with a pause between escape sequences.  Time is in ticks; a client's    *)
(* age is the time since its lastEscape, as far as it matters.             *)
(***************************************************************************)
EXTENDS TelnetCodec, TerminalInput

CONSTANTS
  Clients,     \* clients of one gateway
  None,        \* no client
  Scenarios    \* who they are and what they send, what the device sends, and
               \* TCPInputOptions

Kinds == {"tcp", "telnet", "websocket"}
Byte == 0..255

ASSUME ClientInputAssumption ==
  /\ None \notin Clients
  /\ Scenarios \subseteq [kind : [Clients -> Kinds], input : [Clients -> Seq(Byte)],
                          output : Seq(Seq(Byte)), normalizeCRLF : BOOLEAN, escapeDelay : Nat]

VARIABLES
  scenario,   \* which of them this behaviour is of
  got,        \* how many bytes of its input the handler of each client read
  decoder,    \* telnetDecoder of each client
  reply,      \* what the handler is to answer
  units,      \* what it is to write: the units of the last read
  age,        \* time since lastEscape
  pc,         \* where it is: "reading", "replying", "writing", "port",
              \* "record" or "left"
  written,    \* n, the result of port.Write
  writer,     \* who holds writeMu
  wire,       \* all that was written to the port
  history,    \* the records "tx"
  toClient,   \* all that was written to the connection of each client
  shown,      \* how many pieces of the device's output that was
  cut,        \* history variable: a read ended in CR, or an escape sequence had one
  calm        \* history variable: time since an escape sequence of each client
              \* was on the wire

inVars == <<got, decoder, reply, units, age, pc, written>>
portVars == <<writer, wire, history>>
outVars == <<toClient, shown>>
vars == <<scenario, inVars, portVars, outVars, cut, calm>>

Is(c, kind) == scenario.kind[c] = kind
Input(c) == scenario.input[c]
EscapeDelay == scenario.escapeDelay

-----------------------------------------------------------------------------
(* Reading.                                                                *)

AllData(bytes) == [state |-> "data", command |-> DO, data |-> bytes, reply |-> <<>>]

ForgetsTheState(c, bytes) ==
  IF Is(c, "telnet") THEN Decode(NewDecoder, bytes) ELSE AllData(bytes)

\* What a Telnet client sends goes through its decoder.
Decoded(c, bytes) ==
  IF Is(c, "telnet") THEN Decode(decoder[c], bytes) ELSE AllData(bytes)

KeepsTheNul(c, data) == data

\* handleTelnet takes the NUL from CR NUL.
Unpadded(c, data) == IF Is(c, "telnet") THEN DropAfterCR(data, NUL) ELSE data

\* A message of a WebSocket is written as it is, all else unit by unit.
Units(c, data) ==
  IF Is(c, "websocket") THEN <<[data |-> data, escape |-> FALSE]>>
                        ELSE Split(data, scenario.normalizeCRLF)

NewWriterPerRead(c) == EscapeDelay

\* lastEscape belongs to the writer, which lives as long as the connection.
AgeAtRead(c) == age[c]

\* conn.Read returns the next n bytes; ReadMessage returns a message of n.
Read(c, n) ==
  /\ pc[c] = "reading"
  /\ LET d == Decoded(c, SubSeq(Input(c), got[c] + 1, got[c] + n))
         data == Unpadded(c, d.data)
         cuts == Units(c, data)
     IN  /\ decoder' = [decoder EXCEPT ![c] = [state |-> d.state, command |-> d.command]]
         /\ reply' = [reply EXCEPT ![c] = d.reply]
         /\ units' = [units EXCEPT ![c] = cuts]
         /\ pc' = [pc EXCEPT ![c] = CASE d.reply # <<>> -> "replying"
                                      [] d.reply = <<>> /\ cuts # <<>> -> "writing"
                                      [] d.reply = <<>> /\ cuts = <<>> -> "reading"]
         /\ cut' = [cut EXCEPT ![c] = \/ @
                                      \/ d.data # <<>> /\ Last(d.data) = CR
                                      \/ data # <<>> /\ Last(data) = CR
                                      \/ \E i \in DOMAIN cuts :
                                           /\ cuts[i].escape
                                           /\ \E j \in DOMAIN cuts[i].data : cuts[i].data[j] = CR]
  /\ got' = [got EXCEPT ![c] = @ + n]
  /\ age' = [age EXCEPT ![c] = AgeAtRead(c)]
  /\ UNCHANGED <<scenario, written, portVars, outVars, calm>>

\* writeAll(conn, reply)
Reply(c) ==
  /\ pc[c] = "replying"
  /\ toClient' = [toClient EXCEPT ![c] = @ \o reply[c]]
  /\ reply' = [reply EXCEPT ![c] = <<>>]
  /\ pc' = [pc EXCEPT ![c] = IF units[c] = <<>> THEN "reading" ELSE "writing"]
  /\ UNCHANGED <<scenario, got, decoder, units, age, written, portVars, shown, cut, calm>>

Gone(c) ==
  /\ pc' = [pc EXCEPT ![c] = "left"]
  /\ reply' = [reply EXCEPT ![c] = <<>>]
  /\ units' = [units EXCEPT ![c] = <<>>]

\* The read or the write of the answer fails, and the handler ends.
Leave(c) ==
  /\ pc[c] \in {"reading", "replying"}
  /\ Gone(c)
  /\ UNCHANGED <<scenario, got, decoder, age, written, portVars, outVars, cut, calm>>

-----------------------------------------------------------------------------
(* terminalInputWriter.Write and, for each unit, SerialGateway.Write.      *)

NeverWaits(c) == TRUE

\* An escape sequence waits until lastEscape is EscapeDelay ago.
Rested(c) == Head(units[c]).escape => age[c] >= EscapeDelay

AnyTime == TRUE

WriteMuFree == writer = None

\* The sleep is over, and writeMu is granted.
LockWrite(c) ==
  /\ pc[c] = "writing"
  /\ Rested(c)
  /\ WriteMuFree
  /\ writer' = c
  /\ pc' = [pc EXCEPT ![c] = "port"]
  /\ UNCHANGED <<scenario, got, decoder, reply, units, age, written, wire, history, outVars, cut, calm>>

Piece(c, n) == SubSeq(Head(units[c]).data, 1, n)

\* port.Write takes the unit, or fails and has taken all of it but a byte; of
\* a unit of one byte that is nothing, as without a port.
PortWrite(c) ==
  /\ pc[c] = "port"
  /\ LET size == Len(Head(units[c]).data) IN
     \E n \in {size - 1, size} :
       /\ written' = [written EXCEPT ![c] = n]
       /\ wire' = wire \o [i \in 1..n |-> <<c, Piece(c, n)[i]>>]
       /\ calm' = IF Head(units[c]).escape /\ n > 0 THEN [calm EXCEPT ![c] = 0] ELSE calm
  /\ pc' = [pc EXCEPT ![c] = "record"]
  /\ UNCHANGED <<scenario, got, decoder, reply, units, age, writer, history, outVars, cut>>

RecordsTheUnit(c) == <<Head(units[c]).data>>

RecordsEvenNothing(c) == <<Piece(c, written[c])>>

\* addRecord("tx", data[:n]), if n > 0.
Recorded(c) == IF written[c] > 0 THEN <<Piece(c, written[c])>> ELSE <<>>

KeepsItAfterAnError(c) == IF written[c] = Len(Head(units[c]).data) THEN None ELSE c

\* defer g.writeMu.Unlock()
WriterAfter(c) == None

\* addRecord, and writeMu is released.  After the last unit the handler reads
\* again; after an error or a short write it ends.
Record(c) ==
  /\ pc[c] = "record"
  /\ history' = history \o Recorded(c)
  /\ writer' = WriterAfter(c)
  /\ IF written[c] = Len(Head(units[c]).data)
     THEN /\ units' = [units EXCEPT ![c] = Tail(@)]
          /\ age' = IF Head(units[c]).escape THEN [age EXCEPT ![c] = 0] ELSE age
          /\ pc' = [pc EXCEPT ![c] = IF Len(units[c]) = 1 THEN "reading" ELSE "writing"]
          /\ UNCHANGED reply
     ELSE /\ Gone(c)
          /\ UNCHANGED age
  /\ UNCHANGED <<scenario, got, decoder, written, wire, outVars, cut, calm>>

-----------------------------------------------------------------------------
(* Output and time.                                                        *)

\* The writer goroutine of a Telnet client writes the next piece of output.
Show(c) ==
  /\ Is(c, "telnet")
  /\ pc[c] # "left"
  /\ shown[c] < Len(scenario.output)
  /\ shown' = [shown EXCEPT ![c] = @ + 1]
  /\ toClient' = [toClient EXCEPT ![c] = @ \o Encode(scenario.output[shown'[c]])]
  /\ UNCHANGED <<scenario, inVars, portVars, cut, calm>>

Older(times) == [c \in Clients |-> Min({times[c] + 1, EscapeDelay})]

Tick ==
  /\ \E c \in Clients : age[c] < EscapeDelay \/ calm[c] < EscapeDelay
  /\ age' = Older(age)
  /\ calm' = Older(calm)
  /\ UNCHANGED <<scenario, got, decoder, reply, units, pc, written, portVars, outVars, cut>>

-----------------------------------------------------------------------------
Init ==
  /\ scenario \in Scenarios
  /\ got = [c \in Clients |-> 0]
  /\ decoder = [c \in Clients |-> NewDecoder]
  /\ reply = [c \in Clients |-> <<>>]
  /\ units = [c \in Clients |-> <<>>]
  /\ age = [c \in Clients |-> EscapeDelay]
  /\ pc = [c \in Clients |-> "reading"]
  /\ written = [c \in Clients |-> 0]
  /\ writer = None
  /\ wire = <<>>
  /\ history = <<>>
  /\ toClient = [c \in Clients |-> IF Is(c, "telnet") THEN Greeting ELSE <<>>]
  /\ shown = [c \in Clients |-> 0]
  /\ cut = [c \in Clients |-> FALSE]
  /\ calm = [c \in Clients |-> EscapeDelay]

ReadSome(c) == \E n \in 1..(Len(Input(c)) - got[c]) : Read(c, n)

Next ==
  \/ \E c \in Clients :
       ReadSome(c) \/ Reply(c) \/ Leave(c) \/ LockWrite(c) \/ PortWrite(c) \/ Record(c) \/ Show(c)
  \/ Tick

Safety == Init /\ [][Next]_vars

\* Clients send their input, handlers run on, time passes, port.Write returns,
\* and writeMu starves nobody.
Spec ==
  /\ Safety
  /\ WF_vars(Tick)
  /\ \A c \in Clients : /\ WF_vars(ReadSome(c) \/ Reply(c) \/ PortWrite(c) \/ Record(c))
                        /\ SF_vars(LockWrite(c))

-----------------------------------------------------------------------------
(* Properties.                                                             *)

\* Every variable keeps its shape.
TypeOK ==
  /\ scenario \in Scenarios
  /\ \A c \in Clients :
       /\ got[c] \in 0..Len(Input(c))
       /\ decoder[c].state \in {"data", "iac", "option", "sub", "subIac"}
       /\ decoder[c].command \in Negotiations
       /\ reply[c] \in Seq(Byte)
       /\ units[c] \in Seq([data : Seq(Byte) \ {<<>>}, escape : BOOLEAN])
       /\ age[c] \in 0..EscapeDelay
       /\ pc[c] \in {"reading", "replying", "writing", "port", "record", "left"}
       /\ written[c] \in Nat
       /\ toClient[c] \in Seq(Byte)
       /\ shown[c] \in 0..Len(scenario.output)
  /\ writer \in Clients \cup {None}
  /\ wire \in Seq(Clients \X Byte)
  /\ history \in Seq(Seq(Byte) \ {<<>>})

\* What a client has sent as far as it was read.
Consumed(c) == SubSeq(Input(c), 1, got[c])

\* The data in it.
Meant(c) == IF Is(c, "telnet") THEN DataIn(Consumed(c)) ELSE Consumed(c)

\* What of the wire is of a client.
OnWire(c) == FlattenSeq([i \in DOMAIN wire |-> IF wire[i][1] = c THEN <<wire[i][2]>> ELSE <<>>])

\* What of a client's units has still to be written.
Pending(c) ==
  LET bytes == Bytes(units[c])
  IN  IF pc[c] = "record" THEN SubSeq(bytes, written[c] + 1, Len(bytes)) ELSE bytes

\* The bytes that may be dropped after a CR.
Padding(c) ==
  {b \in {NUL, LF} : IF b = NUL THEN Is(c, "telnet")
                                ELSE scenario.normalizeCRLF /\ ~Is(c, "websocket")}

Padded(padding, kept, byte) ==
  IF byte \in padding /\ kept # <<>> /\ Last(kept) = CR THEN kept ELSE Append(kept, byte)

\* A row of bytes without them.
UpToLineEnds(padding, data) ==
  LET kept[i \in 0..Len(data)] == IF i = 0 THEN <<>> ELSE Padded(padding, kept[i - 1], data[i])
  IN  kept[Len(data)]

\* However a client's input is split into reads, and whatever other clients
\* write, all of its data goes to the port, once and in order, but for what
\* pads line ends: exactly, for a WebSocket, and for a raw client without
\* normalize_crlf.  When the client is cut off, it is a beginning of its data that went
\* there.
InputArrives ==
  \A c \in Clients :
    LET meant == UpToLineEnds(Padding(c), Meant(c)) IN
    IF pc[c] = "left" THEN IsPrefix(UpToLineEnds(Padding(c), OnWire(c)), meant)
                      ELSE UpToLineEnds(Padding(c), OnWire(c) \o Pending(c)) = meant

\* CR NUL and CR LF are taken for one line end wherever they come in one read,
\* and not within an escape sequence, which is written as it is.
LineEndsAreNormalized ==
  \A c \in Clients : ~cut[c] /\ pc[c] # "left" =>
    LET data == IF Is(c, "telnet") THEN DropAfterCR(Meant(c), NUL) ELSE Meant(c) IN
    OnWire(c) \o Pending(c) = IF LF \in Padding(c) THEN DropAfterCR(data, LF) ELSE data

\* The history tells what the port was given, in the order it was given it,
\* also when writes of several clients fail halfway (writeMu spans both).
HistoryIsTheWire ==
  writer = None => FlattenSeq(history) = [i \in DOMAIN wire |-> wire[i][2]]

\* Between two escape sequences of one client, the port sees EscapeDelay pass,
\* whether they came in one read or in several.
EscapesStayApart ==
  [][\A c \in Clients :
       PortWrite(c) /\ Head(units[c]).escape /\ wire' # wire => calm[c] >= EscapeDelay]_vars

\* A Telnet client that reads its connection as Telnet finds the output of the
\* device in it, as it was, between the answers that go the same way.
OutputIsTransparent ==
  \A c \in Clients : Is(c, "telnet") => DataIn(toClient[c]) = FlattenSeq(SubSeq(scenario.output, 1, shown[c]))

\* All that it finds there besides are the greeting and an answer to each of
\* its negotiations that calls for one, once and in order: a refusal of what the
\* greeting has neither offered nor asked for, and none of what it has.  A
\* negotiation that is itself a refusal (WONT, DONT) is never answered.
NegotiationsAreAnswered ==
  \A c \in Clients : Is(c, "telnet") =>
    LET said == CommandsIn(toClient[c]) \o reply[c]
        due == Greeting \o AnswersTo(Consumed(c))
    IN  IF pc[c] = "left" THEN IsPrefix(said, due) ELSE said = due

\* All input of a client that stays is read and written.
InputIsWritten ==
  \A c \in Clients : <>(pc[c] = "left" \/ (got[c] = Len(Input(c)) /\ pc[c] = "reading"))

=============================================================================
