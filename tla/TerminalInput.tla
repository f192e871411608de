---------------------------- MODULE TerminalInput ----------------------------
(***************************************************************************)
(* How terminal input is cut into the units that are written to the port   *)
(* one by one: splitTerminalInput and escapeSequenceEnd (gateway.go).  A   *)
(* unit is an escape sequence or the bytes up to the next one.             *)
(***************************************************************************)
EXTENDS Naturals, Sequences, SequencesExt, FiniteSetsExt

NUL == 0
LF == 10
CR == 13
ESC == 27

\* Where the escape sequence that begins at i ends: CSI sequences at their
\* final byte, SS3 sequences after three bytes, any other after two, and
\* each at the end of the data at the latest.
EscapeSequenceEnd(data, i) ==
  LET finals == {k \in (i + 2)..Len(data) : data[k] \in 64..126}
  IN  CASE i = Len(data) -> i
        [] i < Len(data) /\ data[i + 1] = 91 -> IF finals = {} THEN Len(data) ELSE Min(finals)
        [] i < Len(data) /\ data[i + 1] = 79 -> Min({i + 2, Len(data)})
        [] OTHER -> i + 1

\* A byte that is no part of an escape sequence joins the plain bytes after it.
JoinPlain(byte, units) ==
  IF units # <<>> /\ ~Head(units).escape
  THEN <<[data |-> <<byte>> \o Head(units).data, escape |-> FALSE]>> \o Tail(units)
  ELSE <<[data |-> <<byte>>, escape |-> FALSE]>> \o units

\* splitTerminalInput
Split(data, normalizeCRLF) ==
  LET from[i \in 1..(Len(data) + 1)] ==
        IF i > Len(data) THEN <<>>
        ELSE IF normalizeCRLF /\ data[i] = CR /\ i < Len(data) /\ data[i + 1] = LF
             THEN JoinPlain(CR, from[i + 2])
        ELSE IF data[i] # ESC THEN JoinPlain(data[i], from[i + 1])
        ELSE LET end == EscapeSequenceEnd(data, i)
             IN  <<[data |-> SubSeq(data, i, end), escape |-> TRUE]>> \o from[end + 1]
  IN  from[1]

\* The bytes of a row of units.
Bytes(units) == FlattenSeq([i \in DOMAIN units |-> units[i].data])

\* bytes.ReplaceAll of CR and a byte by CR.
DropAfterCR(data, byte) ==
  LET kept[i \in 0..Len(data)] ==
        CASE i = 0 -> <<>>
          [] i > 1 /\ data[i] = byte /\ data[i - 1] = CR -> kept[i - 1]
          [] OTHER -> Append(kept[i - 1], data[i])
  IN  kept[Len(data)]

=============================================================================
