----------------------------- MODULE TelnetCodec -----------------------------
(***************************************************************************)
(* The Telnet protocol as telnet.go speaks it: the decoder, which takes    *)
(* its input in pieces, the encoder, and the greeting.  Beside them stands *)
(* the meaning of a whole stream, read by the structure of the protocol    *)
(* and not byte by byte.                                                   *)
(***************************************************************************)
EXTENDS Naturals, Sequences, SequencesExt, FiniteSetsExt

SE == 240
SB == 250
WILL == 251
WONT == 252
DO == 253
DONT == 254
IAC == 255

Binary == 0
Echo == 1
SuppressGA == 3
TerminalType == 24
NAWS == 31
Send == 1

Negotiations == {WILL, WONT, DO, DONT}

\* telnetGreeting
Greeting == <<IAC, WILL, Echo,       IAC, WILL, SuppressGA, IAC, DO, SuppressGA,
              IAC, WILL, Binary,     IAC, DO, Binary,       IAC, DO, NAWS,
              IAC, DO, TerminalType>>

-----------------------------------------------------------------------------
(* The code.  A decoder is at "data", after an "iac", at the "option" of   *)
(* command d.command, inside a "sub"negotiation, or after an IAC in it.    *)

NewDecoder == [state |-> "data", command |-> DO]

AskForTerminalType == <<IAC, SB, TerminalType, Send, IAC, SE>>

RefusesNothing(command, option) ==
  IF command = WILL /\ option = TerminalType THEN AskForTerminalType ELSE <<>>

\* The answer to a negotiation: a DO or WILL of something the gateway does
\* not do is refused, and a terminal type is asked for.
Answer(command, option) ==
  CASE command = DO /\ option \notin {Echo, SuppressGA, Binary} -> <<IAC, WONT, option>>
    [] command = WILL /\ option \notin {SuppressGA, Binary, NAWS, TerminalType} ->
         <<IAC, DONT, option>>
    [] command = WILL /\ option = TerminalType -> AskForTerminalType
    [] OTHER -> <<>>

\* One byte in Decode; data and reply are what Decode has put out so far.
DecodeByte(d, byte) ==
  CASE d.state = "data" /\ byte # IAC -> [d EXCEPT !.data = Append(@, byte)]
    [] d.state = "data" /\ byte = IAC -> [d EXCEPT !.state = "iac"]
    [] d.state = "iac" /\ byte = IAC -> [d EXCEPT !.state = "data", !.data = Append(@, IAC)]
    [] d.state = "iac" /\ byte \in Negotiations ->
         [d EXCEPT !.state = "option", !.command = byte]
    [] d.state = "iac" /\ byte = SB -> [d EXCEPT !.state = "sub"]
    [] d.state = "iac" /\ byte \notin Negotiations \cup {IAC, SB} -> [d EXCEPT !.state = "data"]
    [] d.state = "option" -> [d EXCEPT !.state = "data", !.reply = @ \o Answer(d.command, byte)]
    [] d.state = "sub" -> [d EXCEPT !.state = IF byte = IAC THEN "subIac" ELSE "sub"]
    [] d.state = "subIac" -> [d EXCEPT !.state = IF byte = SE THEN "data" ELSE "sub"]

\* Decode
Decode(decoder, input) ==
  LET after[i \in 0..Len(input)] ==
        IF i = 0 THEN [state |-> decoder.state, command |-> decoder.command,
                       data |-> <<>>, reply |-> <<>>]
                 ELSE DecodeByte(after[i - 1], input[i])
  IN  after[Len(input)]

EncodesNothing(data) == data

\* encodeTelnetData
Encode(data) ==
  FlattenSeq([i \in DOMAIN data |-> IF data[i] = IAC THEN <<IAC, IAC>> ELSE <<data[i]>>])

-----------------------------------------------------------------------------
(* The meaning of a stream.  It is a row of items: bytes of data, an IAC   *)
(* that stands for itself, commands, negotiations and subnegotiations.  An *)
(* item that is not complete yet has no meaning yet.                       *)

\* Where the subnegotiation that begins at i ends: at an IAC SE whose IAC is
\* not the second of a pair.
EndsOfSub(s, i) ==
  {k \in (i + 2)..(Len(s) - 1) :
     /\ s[k] = IAC /\ s[k + 1] = SE
     /\ (k - Max({j \in (i + 1)..(k - 1) : s[j] # IAC})) % 2 = 1}

\* The length of the item that begins at i, or 0 if it is not complete.
ItemLength(s, i) ==
  CASE s[i] # IAC -> 1
    [] s[i] = IAC /\ i = Len(s) -> 0
    [] s[i] = IAC /\ i < Len(s) ->
         CASE s[i + 1] \in Negotiations -> IF i + 2 <= Len(s) THEN 3 ELSE 0
           [] s[i + 1] = SB -> IF EndsOfSub(s, i) = {} THEN 0 ELSE Min(EndsOfSub(s, i)) + 2 - i
           [] OTHER -> 2

Items(s) ==
  LET from[i \in 1..(Len(s) + 1)] ==
        IF i > Len(s) \/ ItemLength(s, i) = 0 THEN <<>>
        ELSE <<SubSeq(s, i, i + ItemLength(s, i) - 1)>> \o from[i + ItemLength(s, i)]
  IN  from[1]

\* What an item adds to the data, and what to the rest.
IsData(item) == Len(item) = 1 \/ item = <<IAC, IAC>>
Data(item) == IF IsData(item) THEN <<item[1]>> ELSE <<>>
Command(item) == IF IsData(item) THEN <<>> ELSE item

\* The data that a stream carries.
DataIn(s) == LET items == Items(s) IN FlattenSeq([i \in DOMAIN items |-> Data(items[i])])

\* All else in it.
CommandsIn(s) == LET items == Items(s) IN FlattenSeq([i \in DOMAIN items |-> Command(items[i])])

\* The options that the greeting names after a command.
Greeted(command) ==
  {Greeting[i + 2] : i \in {j \in 1..(Len(Greeting) - 2) : Greeting[j] = IAC /\ Greeting[j + 1] = command}}

Negotiates(item, command) == Len(item) = 3 /\ item[2] = command

\* The answer that an item calls for.  That to a negotiation is a refusal, unless
\* the greeting has offered or asked for just that; a terminal type that is
\* offered is asked for.
Due(item) ==
  CASE Negotiates(item, DO) /\ item[3] \notin Greeted(WILL) -> <<IAC, WONT, item[3]>>
    [] Negotiates(item, WILL) /\ item[3] \notin Greeted(DO) -> <<IAC, DONT, item[3]>>
    [] Negotiates(item, WILL) /\ item[3] = TerminalType -> AskForTerminalType
    [] OTHER -> <<>>

\* The answers that the items of a stream call for, in order.
AnswersTo(s) == LET items == Items(s) IN FlattenSeq([i \in DOMAIN items |-> Due(items[i])])

=============================================================================
