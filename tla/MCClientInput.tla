---------------------------- MODULE MCClientInput ----------------------------
(* Two clients, with inputs that bring negotiations, line ends and escape   *)
(* sequences together, each split into reads in every way.                  *)
EXTENDS ClientInput, TLC

CONSTANTS c1, c2

Client(kind, input) == [kind |-> kind, input |-> input]

Scenario(first, second, output, normalizeCRLF, escapeDelay) ==
  [kind |-> c1 :> first.kind @@ c2 :> second.kind,
   input |-> c1 :> first.input @@ c2 :> second.input,
   output |-> output, normalizeCRLF |-> normalizeCRLF, escapeDelay |-> escapeDelay]

a == 97
Up == <<ESC, 91, 65>>
F1 == <<ESC, 79, 80>>

SomeScenarios ==
  { \* Two clients press keys that send escape sequences.
    Scenario(Client("tcp", <<ESC, a, ESC, a>>), Client("telnet", Up), <<>>, TRUE, 1),
    Scenario(Client("tcp", <<a>> \o F1), Client("telnet", <<ESC, a>> \o Up), <<>>, FALSE, 0),
    Scenario(Client("websocket", <<ESC, CR, LF>>), Client("tcp", <<ESC, a>>), <<>>, TRUE, 1),
    \* Line ends: CR NUL, CR LF, and both at once.
    Scenario(Client("tcp", <<a, CR, LF, LF>>), Client("telnet", <<CR, NUL, LF>>), <<>>, TRUE, 0),
    Scenario(Client("tcp", <<CR, LF>>), Client("telnet", <<CR, LF, CR, NUL>>), <<>>, FALSE, 0),
    \* A line end in the middle of an escape sequence.
    Scenario(Client("tcp", <<ESC, 91, CR, LF, 65>>), Client("telnet", <<>>), <<>>, TRUE, 0),
    \* Negotiations that are accepted, refused and answers, and data between.
    Scenario(Client("websocket", <<>>),
             Client("telnet", <<IAC, DO, Echo, a, IAC, DO, TerminalType, IAC, WILL, TerminalType>>),
             <<<<IAC, SE>>>>, TRUE, 0),
    Scenario(Client("tcp", <<IAC>>),
             Client("telnet", <<IAC, WILL, 99, IAC, WONT, 99, IAC, IAC, IAC, 241>>),
             <<<<IAC, DO>>, <<Echo>>>>, TRUE, 0),
    Scenario(Client("tcp", <<>>),
             Client("telnet", <<IAC, WILL, NAWS, IAC, DO, NAWS, IAC, WILL, Binary>>),
             <<<<IAC>>>>, TRUE, 0),
    \* A subnegotiation with an escaped IAC before a byte SE.
    Scenario(Client("tcp", <<>>), Client("telnet", <<IAC, SB, NAWS, IAC, IAC, SE, IAC, SE, a>>),
             <<<<a>>>>, TRUE, 1) }

=============================================================================
