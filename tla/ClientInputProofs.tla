-------------------------- MODULE ClientInputProofs --------------------------
(***************************************************************************)
(* Proofs about ClientInput for any clients, inputs, outputs and settings. *)
(* The codec and the cutting of input are recursive functions; that they   *)
(* are defined for every input, and what they return, is shown by          *)
(* induction over the length of the input.  That the decoder, however its  *)
(* input is cut, and the meaning of a Telnet stream (Items) agree is shown *)
(* byte by byte: the decoder's state is where the stream stands.  InputInv *)
(* then says what every place of a handler may assume of its unit, who     *)
(* holds writeMu, how far the history is behind the wire, and how age      *)
(* relates to the time since the last escape sequence; TalkInv, what has   *)
(* been said to a Telnet client so far; ArrivingInv, where the data of     *)
(* each client is, up to what pads line ends, and ExactInv, where it is to *)
(* the byte as long as nothing cut a line end.                             *)
(***************************************************************************)
EXTENDS ClientInput, SequenceTheorems, WellFoundedInduction, TLAPS

-----------------------------------------------------------------------------
(* Induction over the naturals, from the least member of a set.            *)

Below == {ss \in Nat \X Nat : ss[1] < ss[2]}

LEMMA BelowIsWellFounded == IsWellFoundedOn(Below, Nat)
<1>1. Below = OpToRel(<, Nat)
  BY DEF Below, OpToRel
<1> QED
  BY <1>1, NatLessThanWellFounded

LEMMA LeastExists ==
  ASSUME NEW S, S \subseteq Nat, S # {}
  PROVE  \E x \in S : \A y \in S : x <= y
<1>1. PICK x \in S : \A y \in S : ~(<<y, x>> \in Below)
  BY BelowIsWellFounded, WFMin
<1>2. ASSUME NEW y \in S, ~(x <= y)
      PROVE  FALSE
  <2>1. x \in Nat /\ y \in Nat /\ y < x
    BY <1>2
  <2>2. <<y, x>> \in Nat \X Nat /\ <<y, x>>[1] = y /\ <<y, x>>[2] = x
    BY <2>1
  <2>3. <<y, x>> \in Below
    BY <2>1, <2>2 DEF Below
  <2> QED
    BY <1>1, <2>3, Zenon
<1> QED
  BY <1>2

\* Induction over the naturals, for the set of those that have the property.
LEMMA NatSetInduction ==
  ASSUME NEW S, 0 \in S, \A n \in Nat : n \in S => n + 1 \in S
  PROVE  Nat \subseteq S
<1> SUFFICES ASSUME Nat \ S # {}
             PROVE  FALSE
  OBVIOUS
<1>1. PICK x \in Nat \ S : \A y \in Nat \ S : x <= y
  BY LeastExists
<1>2. x # 0 /\ x - 1 \in Nat
  BY <1>1
<1>3. x - 1 \in S
  BY <1>1, <1>2
<1> QED
  BY <1>1, <1>2, <1>3

-----------------------------------------------------------------------------
(* What FlattenSeq, defined by recursion over the sequence, does to a      *)
(* sequence that grows at its end and is taken from at its front.          *)

\* f holds the concatenations of the first 1, 2, ..., n members of seqs.
Concatenates(f, seqs, n) ==
  f = [i \in 1..n |-> IF i = 1 THEN seqs[i] ELSE f[i - 1] \o seqs[i]]

LEMMA ConcatenatesStep ==
  ASSUME NEW f, NEW seqs, NEW n \in Nat, Concatenates(f, seqs, n)
  PROVE  /\ n >= 1 => f[1] = seqs[1]
         /\ \A i \in Nat : i >= 1 /\ i + 1 <= n => f[i + 1] = f[i] \o seqs[i + 1]
         /\ DOMAIN f = 1..n
<1>1. f = [i \in 1..n |-> IF i = 1 THEN seqs[i] ELSE f[i - 1] \o seqs[i]]
  BY DEF Concatenates
<1>2. ASSUME n >= 1
      PROVE  f[1] = seqs[1]
  <2>1. 1 \in 1..n
    BY <1>2
  <2> QED
    BY <1>1, <2>1, Zenon
<1>3. ASSUME NEW i \in Nat, i >= 1, i + 1 <= n
      PROVE  f[i + 1] = f[i] \o seqs[i + 1]
  <2>1. i + 1 \in 1..n /\ i + 1 # 1 /\ (i + 1) - 1 = i
    BY <1>3
  <2> QED
    BY <1>1, <2>1
<1>4. DOMAIN f = 1..n
  BY <1>1
<1> QED
  BY <1>2, <1>3, <1>4

LEMMA ConcatenatesTyped ==
  ASSUME NEW T, NEW seqs \in Seq(Seq(T)), NEW n \in 0..Len(seqs), NEW f, Concatenates(f, seqs, n)
  PROVE  \A i \in 1..n : f[i] \in Seq(T)
<1> DEFINE S == {i \in Nat : i \in 1..n => f[i] \in Seq(T)}
<1>0. /\ n \in Nat /\ n <= Len(seqs)
      /\ n >= 1 => f[1] = seqs[1]
      /\ \A i \in Nat : i >= 1 /\ i + 1 <= n => f[i + 1] = f[i] \o seqs[i + 1]
  <2>1. n \in Nat /\ n <= Len(seqs)
    OBVIOUS
  <2> QED
    BY <2>1, ConcatenatesStep
<1>1. 0 \in S
  BY <1>0
<1>2. ASSUME NEW i \in Nat, i \in S
      PROVE  i + 1 \in S
  <2> SUFFICES ASSUME i + 1 \in 1..n
               PROVE  f[i + 1] \in Seq(T)
    OBVIOUS
  <2>1. seqs[i + 1] \in Seq(T)
    OBVIOUS
  <2>2. CASE i = 0
    BY <1>0, <2>1, <2>2
  <2>3. CASE i # 0
    <3>0. i >= 1 /\ i + 1 <= n
      BY <1>0, <2>3
    <3>1. i \in 1..n /\ f[i] \in Seq(T)
      BY <1>2, <2>3
    <3>2. f[i + 1] = f[i] \o seqs[i + 1]
      BY <1>0, <3>0, Zenon
    <3> QED
      BY <2>1, <3>1, <3>2, ConcatProperties
  <2> QED
    BY <2>2, <2>3
<1>3. Nat \subseteq S
  <2> HIDE DEF S
  <2> QED
    BY <1>1, <1>2, NatSetInduction
<1> QED
  BY <1>3

LEMMA ConcatenatesExists ==
  ASSUME NEW seqs
  PROVE  \A n \in Nat : \E f : Concatenates(f, seqs, n)
<1> DEFINE S == {n \in Nat : \E f : Concatenates(f, seqs, n)}
<1>1. 0 \in S
  <2>1. Concatenates(<<>>, seqs, 0)
    BY DEF Concatenates
  <2> QED
    BY <2>1
<1>2. ASSUME NEW n \in Nat, n \in S
      PROVE  n + 1 \in S
  <2>1. PICK f : Concatenates(f, seqs, n)
    BY <1>2
  <2>2. f = [i \in 1..n |-> IF i = 1 THEN seqs[i] ELSE f[i - 1] \o seqs[i]]
    BY <2>1 DEF Concatenates
  <2>3. PICK g : g = [i \in 1..(n + 1) |-> IF i = n + 1
                                            THEN IF i = 1 THEN seqs[i] ELSE f[i - 1] \o seqs[i]
                                            ELSE f[i]]
    OBVIOUS
  <2>4. \A i \in 1..n : g[i] = f[i]
    BY <2>3
  <2>5. ASSUME NEW i \in 1..(n + 1)
        PROVE  g[i] = IF i = 1 THEN seqs[i] ELSE g[i - 1] \o seqs[i]
    <3>1. CASE i = n + 1
      <4>1. g[i] = IF i = 1 THEN seqs[i] ELSE f[i - 1] \o seqs[i]
        BY <2>3, <3>1
      <4>2. i # 1 => g[i - 1] = f[i - 1]
        BY <2>4, <3>1
      <4> QED
        BY <4>1, <4>2
    <3>2. CASE i # n + 1
      <4>1. i \in 1..n
        BY <3>2
      <4>2. g[i] = f[i] /\ (i # 1 => g[i - 1] = f[i - 1])
        BY <2>4, <4>1
      <4>3. f[i] = IF i = 1 THEN seqs[i] ELSE f[i - 1] \o seqs[i]
        BY <2>2, <4>1
      <4> QED
        BY <4>2, <4>3
    <3> QED
      BY <3>1, <3>2
  <2>6. Concatenates(g, seqs, n + 1)
    BY <2>3, <2>5 DEF Concatenates
  <2> QED
    BY <2>6
<1>3. Nat \subseteq S
  <2> HIDE DEF S
  <2> QED
    BY <1>1, <1>2, NatSetInduction
<1> QED
  BY <1>3

\* Two sequences that agree so far have the same concatenations so far.
LEMMA ConcatenatesAgree ==
  ASSUME NEW f, NEW g, NEW s, NEW t, NEW n \in Nat, NEW m \in Nat,
         Concatenates(f, s, n), Concatenates(g, t, m), n <= m,
         \A i \in 1..n : s[i] = t[i]
  PROVE  \A i \in 1..n : f[i] = g[i]
<1> DEFINE S == {i \in Nat : i \in 1..n => f[i] = g[i]}
<1>0. /\ n >= 1 => f[1] = s[1]
      /\ \A i \in Nat : i >= 1 /\ i + 1 <= n => f[i + 1] = f[i] \o s[i + 1]
  BY ConcatenatesStep, ZenonT(60)
<1>4. /\ m >= 1 => g[1] = t[1]
      /\ \A i \in Nat : i >= 1 /\ i + 1 <= m => g[i + 1] = g[i] \o t[i + 1]
  BY ConcatenatesStep, ZenonT(60)
<1>1. 0 \in S
  OBVIOUS
<1>2. ASSUME NEW i \in Nat, i \in S
      PROVE  i + 1 \in S
  <2> SUFFICES ASSUME i + 1 \in 1..n
               PROVE  f[i + 1] = g[i + 1]
    OBVIOUS
  <2>1. CASE i = 0
    BY <1>0, <1>4, <2>1
  <2>2. CASE i # 0
    <3>0. i >= 1 /\ i + 1 <= n /\ i + 1 <= m
      BY <2>2
    <3>1. i >= 1 /\ f[i] = g[i]
      BY <1>2, <2>2
    <3>2. f[i + 1] = f[i] \o s[i + 1]
      BY <1>0, <3>0, Zenon
    <3>3. g[i + 1] = g[i] \o t[i + 1]
      BY <1>4, <3>0, Zenon
    <3> QED
      BY <3>1, <3>2, <3>3
  <2> QED
    BY <2>1, <2>2
<1>3. Nat \subseteq S
  <2> HIDE DEF S
  <2> QED
    BY <1>1, <1>2, NatSetInduction
<1> QED
  BY <1>3

\* FlattenSeq is the last of them: they determine the function it chooses.
LEMMA FlattenIsLast ==
  ASSUME NEW s, Len(s) \in Nat, Len(s) # 0, NEW f, Concatenates(f, s, Len(s))
  PROVE  FlattenSeq(s) = f[Len(s)]
<1>1. f = [i \in 1..Len(s) |-> IF i = 1 THEN s[i] ELSE f[i - 1] \o s[i]]
  BY DEF Concatenates
<1>2. ASSUME NEW g, g = [i \in 1..Len(s) |-> IF i = 1 THEN s[i] ELSE g[i - 1] \o s[i]]
      PROVE  g = f
  <2>1. Concatenates(g, s, Len(s))
    BY <1>2 DEF Concatenates
  <2>2. \A i \in 1..Len(s) : g[i] = f[i]
    BY <2>1, ConcatenatesAgree
  <2>3. g = [i \in 1..Len(s) |-> g[i]] /\ f = [i \in 1..Len(s) |-> f[i]]
    BY <1>1, <1>2
  <2> QED
    BY <2>2, <2>3
<1> QED
  BY <1>1, <1>2, Zenon DEF FlattenSeq

LEMMA FlattenEmpty == FlattenSeq(<<>>) = <<>>
BY DEF FlattenSeq

\* All that the lemmas below use of FlattenSeq.
LEMMA FlattenSound ==
  ASSUME NEW T, NEW s \in Seq(Seq(T)), s # <<>>
  PROVE  \E f : /\ Concatenates(f, s, Len(s))
                /\ FlattenSeq(s) = f[Len(s)]
                /\ f[1] = s[1]
                /\ \A i \in Nat : i >= 1 /\ i + 1 <= Len(s) => f[i + 1] = f[i] \o s[i + 1]
                /\ \A i \in 1..Len(s) : f[i] \in Seq(T)
<1>1. PICK n \in Nat : n = Len(s) /\ n >= 1
  BY EmptySeq, LenProperties
<1>2. PICK f : Concatenates(f, s, n)
  BY ConcatenatesExists, Zenon
<1>3. FlattenSeq(s) = f[n]
  <2>1. Len(s) \in Nat /\ Len(s) # 0
    BY <1>1
  <2>2. Concatenates(f, s, Len(s))
    BY <1>1, <1>2, Zenon
  <2>3. FlattenSeq(s) = f[Len(s)]
    BY <2>1, <2>2, FlattenIsLast, Zenon
  <2> QED
    BY <1>1, <2>3, Zenon
<1>4. /\ n >= 1 => f[1] = s[1]
      /\ \A i \in Nat : i >= 1 /\ i + 1 <= n => f[i + 1] = f[i] \o s[i + 1]
  BY <1>2, ConcatenatesStep, Zenon
<1>5. \A i \in 1..n : f[i] \in Seq(T)
  <2>1. n \in 0..Len(s)
    BY <1>1
  <2> QED
    BY <1>2, <2>1, ConcatenatesTyped, Zenon
<1> QED
  <2>1. f[1] = s[1]
    BY <1>1, <1>4, Zenon
  <2> QED
    BY <1>1, <1>2, <1>3, <1>4, <1>5, <2>1, Zenon

LEMMA FlattenTyped ==
  ASSUME NEW T, NEW s \in Seq(Seq(T))
  PROVE  FlattenSeq(s) \in Seq(T)
<1>1. CASE s = <<>>
  BY <1>1, FlattenEmpty, EmptySeq
<1>2. CASE s # <<>>
  <2>1. Len(s) \in 1..Len(s)
    BY <1>2, EmptySeq, LenProperties
  <2> QED
    BY <1>2, <2>1, FlattenSound, Zenon
<1> QED
  BY <1>1, <1>2

LEMMA FlattenAppend ==
  ASSUME NEW T, NEW s \in Seq(Seq(T)), NEW e \in Seq(T)
  PROVE  FlattenSeq(Append(s, e)) = FlattenSeq(s) \o e
<1>1. PICK t : t = Append(s, e)
  OBVIOUS
<1>2. /\ t \in Seq(Seq(T))
      /\ Len(t) = Len(s) + 1
      /\ \A i \in 1..Len(s) : s[i] = t[i]
      /\ t[Len(s) + 1] = e
      /\ t # <<>>
  BY <1>1, AppendProperties, EmptySeq
<1>3. PICK g : /\ Concatenates(g, t, Len(t))
               /\ FlattenSeq(t) = g[Len(t)]
               /\ g[1] = t[1]
               /\ \A i \in Nat : i >= 1 /\ i + 1 <= Len(t) => g[i + 1] = g[i] \o t[i + 1]
               /\ \A i \in 1..Len(t) : g[i] \in Seq(T)
  BY <1>2, FlattenSound, Zenon
<1>4. CASE s = <<>>
  <2>1. Len(t) = 1 /\ t[1] = e
    BY <1>2, <1>4, EmptySeq
  <2>2. FlattenSeq(t) = e
    BY <1>3, <2>1, Zenon
  <2>3. FlattenSeq(s) = <<>>
    BY <1>4, FlattenEmpty
  <2>4. <<>> \o e = e
    BY ConcatEmptySeq
  <2> QED
    BY <1>1, <2>2, <2>3, <2>4, Zenon
<1>5. CASE s # <<>>
  <2>1. Len(s) >= 1 /\ Len(s) + 1 <= Len(t) /\ Len(s) <= Len(t) /\ Len(s) \in Nat /\ Len(t) \in Nat
    BY <1>2, <1>5, EmptySeq, LenProperties
  <2>2. PICK f : /\ Concatenates(f, s, Len(s))
                 /\ FlattenSeq(s) = f[Len(s)]
    BY <1>5, FlattenSound, Zenon
  <2>3. \A i \in 1..Len(s) : f[i] = g[i]
    <3>1. Concatenates(f, s, Len(s)) /\ Concatenates(g, t, Len(t))
      BY <1>3, <2>2, Zenon
    <3>2. PICK n \in Nat, m \in Nat : n = Len(s) /\ m = Len(t) /\ n <= m
      BY <2>1
    <3>3. Concatenates(f, s, n) /\ Concatenates(g, t, m) /\ \A i \in 1..n : s[i] = t[i]
      BY <1>2, <3>1, <3>2, Zenon
    <3>4. \A i \in 1..n : f[i] = g[i]
      <4>1. n \in Nat /\ m \in Nat /\ n <= m
        BY <3>2
      <4> QED
        BY <3>3, <4>1, ConcatenatesAgree, ZenonT(60)
    <3> QED
      BY <3>2, <3>4, Zenon
  <2>4. f[Len(s)] = g[Len(s)]
    <3>1. Len(s) \in 1..Len(s)
      BY <2>1
    <3> QED
      BY <2>3, <3>1, Zenon
  <2>5. g[Len(s) + 1] = g[Len(s)] \o t[Len(s) + 1]
    BY <1>3, <2>1, Zenon
  <2> QED
    BY <1>1, <1>2, <1>3, <2>2, <2>4, <2>5, Zenon
<1> QED
  BY <1>4, <1>5

-----------------------------------------------------------------------------
(* The type of what the codec and the cutting of input return.             *)

DecoderStates == {"data", "iac", "option", "sub", "subIac"}

Decoders == [state : DecoderStates, command : Negotiations]

Decodings == [state : DecoderStates, command : Negotiations, data : Seq(Byte), reply : Seq(Byte)]

UnitsOfInput == [data : Seq(Byte) \ {<<>>}, escape : BOOLEAN]

LEMMA Codes ==
  /\ Negotiations \subseteq Byte
  /\ {SE, SB, IAC, Binary, Echo, SuppressGA, TerminalType, NAWS, Send, NUL, LF, CR, ESC} \subseteq Byte
BY DEF Negotiations, Byte, SE, SB, WILL, WONT, DO, DONT, IAC, Binary, Echo, SuppressGA, TerminalType,
       NAWS, Send, NUL, LF, CR, ESC

LEMMA AnswerTyped ==
  ASSUME NEW command \in Negotiations, NEW option \in Byte
  PROVE  Answer(command, option) \in Seq(Byte)
<1>1. /\ {IAC, SB, TerminalType, Send, SE, WONT, DONT} \subseteq Byte
  BY Codes DEF Negotiations
<1>2. <<IAC, WONT, option>> \in Seq(Byte) /\ <<IAC, DONT, option>> \in Seq(Byte)
  BY <1>1
<1>3. AskForTerminalType \in Seq(Byte)
  BY <1>1 DEF AskForTerminalType
<1>4. <<>> \in Seq(Byte)
  OBVIOUS
<1> QED
  BY <1>2, <1>3, <1>4, Zenon DEF Answer

LEMMA DecodeByteTyped ==
  ASSUME NEW d \in Decodings, NEW byte \in Byte
  PROVE  DecodeByte(d, byte) \in Decodings
<1>1. /\ Append(d.data, byte) \in Seq(Byte)
      /\ Append(d.data, IAC) \in Seq(Byte)
  BY Codes, AppendProperties DEF Decodings
<1>2. d.reply \o Answer(d.command, byte) \in Seq(Byte)
  BY AnswerTyped, ConcatProperties DEF Decodings
<1>3. d.state \in DecoderStates
  BY DEF Decodings
<1>4. CASE d.state = "data"
  BY <1>1, <1>4 DEF DecodeByte, Decodings, DecoderStates
<1>5. CASE d.state = "iac"
  BY <1>1, <1>5 DEF DecodeByte, Decodings, DecoderStates
<1>6. CASE d.state = "option"
  BY <1>2, <1>6 DEF DecodeByte, Decodings, DecoderStates
<1>7. CASE d.state = "sub"
  BY <1>7 DEF DecodeByte, Decodings, DecoderStates
<1>8. CASE d.state = "subIac"
  BY <1>8 DEF DecodeByte, Decodings, DecoderStates
<1> QED
  BY <1>3, <1>4, <1>5, <1>6, <1>7, <1>8 DEF DecoderStates

\* f holds what Decode has after the first 0, 1, ..., n bytes.
DecodesFrom(f, x, input, n) ==
  f = [i \in 0..n |-> IF i = 0 THEN x ELSE DecodeByte(f[i - 1], input[i])]

LEMMA DecodeRuns ==
  ASSUME NEW dec \in Decoders, NEW input \in Seq(Byte)
  PROVE  \E x \in Decodings : \E f :
           /\ x = [state |-> dec.state, command |-> dec.command, data |-> <<>>, reply |-> <<>>]
           /\ DecodesFrom(f, x, input, Len(input))
           /\ Decode(dec, input) = f[Len(input)]
<1>1. PICK x \in Decodings :
        x = [state |-> dec.state, command |-> dec.command, data |-> <<>>, reply |-> <<>>]
  BY EmptySeq DEF Decoders, Decodings
<1>2. PICK n \in Nat : n = Len(input)
  BY LenProperties
<1>3. \E f : DecodesFrom(f, x, input, n)
  <2> DEFINE S == {m \in Nat : \E f : DecodesFrom(f, x, input, m)}
  <2>1. 0 \in S
    <3>1. DecodesFrom([i \in 0..0 |-> x], x, input, 0)
      BY DEF DecodesFrom
    <3> QED
      BY <3>1
  <2>2. ASSUME NEW m \in Nat, m \in S
        PROVE  m + 1 \in S
    <3>1. PICK f : f = [i \in 0..m |-> IF i = 0 THEN x ELSE DecodeByte(f[i - 1], input[i])]
      BY <2>2 DEF DecodesFrom
    <3>2. PICK g : g = [i \in 0..(m + 1) |-> IF i = m + 1 THEN DecodeByte(f[m], input[i]) ELSE f[i]]
      OBVIOUS
    <3>3. ASSUME NEW i \in 0..(m + 1)
          PROVE  g[i] = IF i = 0 THEN x ELSE DecodeByte(g[i - 1], input[i])
      <4>1. CASE i = m + 1
        <5>1. g[i] = DecodeByte(f[m], input[i]) /\ g[m] = f[m] /\ i - 1 = m /\ i # 0
          BY <3>2, <4>1
        <5> QED
          BY <5>1, Zenon
      <4>2. CASE i # m + 1
        <5>1. i \in 0..m /\ g[i] = f[i] /\ (i # 0 => g[i - 1] = f[i - 1])
          BY <3>2, <4>2
        <5>2. f[i] = IF i = 0 THEN x ELSE DecodeByte(f[i - 1], input[i])
          BY <3>1, <5>1, Zenon
        <5> QED
          BY <5>1, <5>2, Zenon
      <4> QED
        BY <4>1, <4>2
    <3>4. DecodesFrom(g, x, input, m + 1)
      BY <3>2, <3>3, Zenon DEF DecodesFrom
    <3> QED
      BY <3>4
  <2>3. Nat \subseteq S
    <3> HIDE DEF S
    <3> QED
      BY <2>1, <2>2, NatSetInduction
  <2> QED
    BY <2>3
<1>4. PICK f : f = CHOOSE g : DecodesFrom(g, x, input, n)
  OBVIOUS
<1>5. Decode(dec, input) = f[n]
  BY <1>1, <1>2, <1>4, Zenon DEF Decode, DecodesFrom
<1>6. DecodesFrom(f, x, input, n)
  BY <1>3, <1>4, Zenon
<1> QED
  BY <1>1, <1>2, <1>5, <1>6, Zenon

LEMMA DecodeTyped ==
  ASSUME NEW dec \in Decoders, NEW input \in Seq(Byte)
  PROVE  Decode(dec, input) \in Decodings
<1>1. PICK x \in Decodings :
        \E f : DecodesFrom(f, x, input, Len(input)) /\ Decode(dec, input) = f[Len(input)]
  BY DecodeRuns, Zenon
<1>2. PICK n \in Nat : n = Len(input)
  BY LenProperties
<1>3. ASSUME NEW f, DecodesFrom(f, x, input, n)
      PROVE  f[n] \in Decodings
  <2> DEFINE S == {i \in Nat : i \in 0..n => f[i] \in Decodings}
  <2>1. 0 \in S
    BY <1>3 DEF DecodesFrom
  <2>2. ASSUME NEW i \in Nat, i \in S
        PROVE  i + 1 \in S
    <3> SUFFICES ASSUME i + 1 \in 0..n
                 PROVE  f[i + 1] \in Decodings
      OBVIOUS
    <3>1. f[i + 1] = DecodeByte(f[i], input[i + 1])
      <4>1. i + 1 # 0 /\ (i + 1) - 1 = i
        OBVIOUS
      <4> QED
        BY <1>3, <4>1 DEF DecodesFrom
    <3>2. f[i] \in Decodings
      BY <2>2
    <3>3. input[i + 1] \in Byte
      BY <1>2, ElementOfSeq
    <3> QED
      BY <3>1, <3>2, <3>3, DecodeByteTyped, Zenon
  <2>3. Nat \subseteq S
    <3> HIDE DEF S
    <3> QED
      BY <2>1, <2>2, NatSetInduction
  <2> QED
    BY <2>3
<1>4. PICK f : DecodesFrom(f, x, input, n) /\ Decode(dec, input) = f[n]
  BY <1>1, <1>2, Zenon
<1> QED
  BY <1>3, <1>4, Zenon

\* f holds what is kept of the first 0, 1, ..., n bytes.
KeepsFrom(f, bytes, byte, n) ==
  f = [i \in 0..n |->
        CASE i = 0 -> <<>>
          [] i > 1 /\ bytes[i] = byte /\ bytes[i - 1] = CR -> f[i - 1]
          [] OTHER -> Append(f[i - 1], bytes[i])]

\* The same, place by place.
Keeps(f, bytes, byte, n) ==
  /\ f[0] = <<>>
  /\ \A i \in 1..n : f[i] = IF i > 1 /\ bytes[i] = byte /\ bytes[i - 1] = CR
                             THEN f[i - 1] ELSE Append(f[i - 1], bytes[i])

LEMMA KeptOneByOne ==
  ASSUME NEW bytes, NEW byte, NEW n \in Nat, NEW f, KeepsFrom(f, bytes, byte, n)
  PROVE  Keeps(f, bytes, byte, n)
<1>1. \A i \in 0..n : f[i] = CASE i = 0 -> <<>>
                               [] i > 1 /\ bytes[i] = byte /\ bytes[i - 1] = CR -> f[i - 1]
                               [] OTHER -> Append(f[i - 1], bytes[i])
  BY DEF KeepsFrom
<1>2. f[0] = <<>>
  <2>1. 0 \in 0..n /\ ~(0 > 1)
    OBVIOUS
  <2> QED
    BY <1>1, <2>1, Zenon
<1>3. ASSUME NEW i \in 1..n
      PROVE  f[i] = IF i > 1 /\ bytes[i] = byte /\ bytes[i - 1] = CR
                    THEN f[i - 1] ELSE Append(f[i - 1], bytes[i])
  <2>1. i \in 0..n /\ i # 0
    OBVIOUS
  <2>2. CASE i > 1 /\ bytes[i] = byte /\ bytes[i - 1] = CR
    BY <1>1, <2>1, <2>2
  <2>3. CASE ~(i > 1 /\ bytes[i] = byte /\ bytes[i - 1] = CR)
    BY <1>1, <2>1, <2>3
  <2> QED
    BY <2>2, <2>3
<1> QED
  BY <1>2, <1>3, Zenon DEF Keeps

LEMMA DropRuns ==
  ASSUME NEW bytes \in Seq(Byte), NEW byte
  PROVE  \E f : Keeps(f, bytes, byte, Len(bytes)) /\ DropAfterCR(bytes, byte) = f[Len(bytes)]
<1>1. PICK n \in Nat : n = Len(bytes)
  BY LenProperties
<1> DEFINE Drops(i) == i > 1 /\ bytes[i] = byte /\ bytes[i - 1] = CR
           Kept(f, i) == CASE i = 0 -> <<>>
                            [] Drops(i) -> f[i - 1]
                            [] OTHER -> Append(f[i - 1], bytes[i])
<1>2. \E f : KeepsFrom(f, bytes, byte, n)
  <2> DEFINE S == {m \in Nat : \E f : KeepsFrom(f, bytes, byte, m)}
  <2>1. 0 \in S
    <3>1. KeepsFrom([i \in 0..0 |-> <<>>], bytes, byte, 0)
      BY DEF KeepsFrom
    <3> QED
      BY <3>1
  <2>2. ASSUME NEW m \in Nat, m \in S
        PROVE  m + 1 \in S
    <3>1. PICK f : f = [i \in 0..m |-> Kept(f, i)]
      BY <2>2 DEF KeepsFrom
    <3>2. PICK g : g = [i \in 0..(m + 1) |-> IF i = m + 1 THEN Kept(f, i) ELSE f[i]]
      OBVIOUS
    <3>3. ASSUME NEW i \in 0..(m + 1)
          PROVE  g[i] = Kept(g, i)
      <4>1. i # 0 => g[i - 1] = f[i - 1]
        BY <3>2
      <4>2. g[i] = Kept(f, i)
        <5>1. CASE i = m + 1
          BY <3>2, <5>1
        <5>2. CASE i # m + 1
          <6>1. i \in 0..m
            BY <5>2
          <6>2. g[i] = f[i]
            BY <3>2, <5>2, Zenon
          <6> QED
            BY <3>1, <6>1, <6>2, Zenon
        <5> QED
          BY <5>1, <5>2
      <4>3. Kept(g, i) = Kept(f, i)
        <5>1. CASE i = 0
          BY <5>1
        <5>2. CASE i # 0
          BY <4>1, <5>2
        <5> QED
          BY <5>1, <5>2
      <4> QED
        BY <4>2, <4>3, Zenon
    <3>4. KeepsFrom(g, bytes, byte, m + 1)
      BY <3>2, <3>3, Zenon DEF KeepsFrom
    <3> QED
      BY <3>4
  <2>3. Nat \subseteq S
    <3> HIDE DEF S
    <3> QED
      BY <2>1, <2>2, NatSetInduction
  <2> QED
    BY <2>3
<1>3. DropAfterCR(bytes, byte) = (CHOOSE f : KeepsFrom(f, bytes, byte, n))[n]
  BY <1>1, Zenon DEF DropAfterCR, KeepsFrom
<1>4. KeepsFrom(CHOOSE f : KeepsFrom(f, bytes, byte, n), bytes, byte, n)
  BY <1>2, Zenon
<1>5. PICK f : KeepsFrom(f, bytes, byte, n) /\ DropAfterCR(bytes, byte) = f[n]
  BY <1>3, <1>4, Zenon
<1>6. Keeps(f, bytes, byte, n)
  BY <1>5, KeptOneByOne, Zenon
<1> QED
  BY <1>1, <1>5, <1>6, Zenon

LEMMA DropAfterCRTyped ==
  ASSUME NEW bytes \in Seq(Byte), NEW byte
  PROVE  DropAfterCR(bytes, byte) \in Seq(Byte)
<1>1. PICK n \in Nat : n = Len(bytes)
  BY LenProperties
<1>2. PICK f : Keeps(f, bytes, byte, n) /\ DropAfterCR(bytes, byte) = f[n]
  BY <1>1, DropRuns, Zenon
<1> DEFINE S == {i \in Nat : i <= n => f[i] \in Seq(Byte)}
<1>3. 0 \in S
  <2>1. f[0] \in Seq(Byte)
    BY <1>2, EmptySeq DEF Keeps
  <2> QED
    BY <2>1
<1>4. ASSUME NEW i \in Nat, i \in S
      PROVE  i + 1 \in S
  <2> SUFFICES ASSUME i + 1 <= n
               PROVE  f[i + 1] \in Seq(Byte)
    OBVIOUS
  <2>1. f[i] \in Seq(Byte) /\ bytes[i + 1] \in Byte
    BY <1>1, <1>4, ElementOfSeq
  <2>2. Append(f[i], bytes[i + 1]) \in Seq(Byte)
    BY <2>1, AppendProperties
  <2>3. i + 1 \in 1..n /\ (i + 1) - 1 = i
    OBVIOUS
  <2>4. f[i + 1] \in {f[i], Append(f[i], bytes[i + 1])}
    BY <1>2, <2>3 DEF Keeps
  <2> QED
    BY <2>1, <2>2, <2>4
<1>5. Nat \subseteq S
  <2> HIDE DEF S
  <2> QED
    BY <1>3, <1>4, NatSetInduction
<1>6. f[n] \in Seq(Byte)
  BY <1>5
<1> QED
  BY <1>2, <1>6, Zenon

LEMMA MinIsLeast ==
  ASSUME NEW S, S \subseteq Nat, S # {}
  PROVE  Min(S) \in S
BY LeastExists, Zenon DEF Min

LEMMA EscapeEndsInTheData ==
  ASSUME NEW bytes \in Seq(Byte), NEW i \in 1..Len(bytes)
  PROVE  EscapeSequenceEnd(bytes, i) \in i..Len(bytes)
<1> DEFINE finals == {k \in (i + 2)..Len(bytes) : bytes[k] \in 64..126}
<1>1. Len(bytes) \in Nat
  BY LenProperties
<1>2. finals # {} => Min(finals) \in i..Len(bytes)
  <2>1. finals \subseteq Nat /\ finals \subseteq i..Len(bytes)
    BY <1>1
  <2> HIDE DEF finals
  <2> QED
    BY <2>1, MinIsLeast
<1>3. Min({i + 2, Len(bytes)}) \in {i + 2, Len(bytes)}
  BY <1>1, MinIsLeast
<1>4. Min({i + 2, Len(bytes)}) <= Len(bytes)
  <2>1. PICK x \in {i + 2, Len(bytes)} : \A y \in {i + 2, Len(bytes)} : x <= y
    BY <1>1
  <2>2. \A y \in {i + 2, Len(bytes)} : Min({i + 2, Len(bytes)}) <= y
    BY <2>1, Zenon DEF Min
  <2> QED
    BY <2>2
<1>5. CASE i = Len(bytes)
  BY <1>5 DEF EscapeSequenceEnd
<1>6. CASE i < Len(bytes)
  <2> HIDE DEF finals
  <2>1. EscapeSequenceEnd(bytes, i) \in
          {IF finals = {} THEN Len(bytes) ELSE Min(finals), Min({i + 2, Len(bytes)}), i + 1}
    <3>1. i # Len(bytes)
      BY <1>6
    <3> QED
      BY <1>6, <3>1, Zenon DEF EscapeSequenceEnd, finals
  <2> QED
    BY <1>1, <1>2, <1>3, <1>4, <1>6, <2>1
<1> QED
  BY <1>1, <1>5, <1>6

LEMMA JoinPlainTyped ==
  ASSUME NEW byte \in Byte, NEW us \in Seq(UnitsOfInput)
  PROVE  JoinPlain(byte, us) \in Seq(UnitsOfInput)
<1> DEFINE alone == [data |-> <<byte>>, escape |-> FALSE]
<1>1. alone \in UnitsOfInput /\ <<alone>> \in Seq(UnitsOfInput)
  BY DEF UnitsOfInput
<1>2. CASE us # <<>> /\ ~Head(us).escape
  <2>1. Head(us) \in UnitsOfInput /\ Tail(us) \in Seq(UnitsOfInput)
    BY <1>2, HeadTailProperties
  <2>2. PICK d \in Seq(Byte) : d = Head(us).data
    BY <2>1 DEF UnitsOfInput
  <2>3. <<byte>> \o d \in Seq(Byte) /\ <<byte>> \o d # <<>>
    OBVIOUS
  <2>4. PICK joined \in UnitsOfInput : joined = [data |-> <<byte>> \o d, escape |-> FALSE]
    BY <2>3 DEF UnitsOfInput
  <2>5. <<joined>> \o Tail(us) \in Seq(UnitsOfInput)
    BY <2>1
  <2> QED
    BY <1>2, <2>2, <2>4, <2>5, Zenon DEF JoinPlain
<1>3. CASE ~(us # <<>> /\ ~Head(us).escape)
  <2>1. <<alone>> \o us \in Seq(UnitsOfInput)
    BY <1>1, ConcatProperties
  <2> QED
    BY <1>3, <2>1, Zenon DEF JoinPlain
<1> QED
  BY <1>2, <1>3

\* What the units from i on are, given those of every later place.
UnitsFrom(f, bytes, normalizeCRLF, i) ==
  IF i > Len(bytes) THEN <<>>
  ELSE IF normalizeCRLF /\ bytes[i] = CR /\ i < Len(bytes) /\ bytes[i + 1] = LF
       THEN JoinPlain(CR, f[i + 2])
  ELSE IF bytes[i] # ESC THEN JoinPlain(bytes[i], f[i + 1])
  ELSE LET end == EscapeSequenceEnd(bytes, i)
       IN  <<[data |-> SubSeq(bytes, i, end), escape |-> TRUE]>> \o f[end + 1]

SplitsFrom(f, bytes, normalizeCRLF, m) ==
  f = [i \in m..(Len(bytes) + 1) |-> UnitsFrom(f, bytes, normalizeCRLF, i)]

LEMMA PartTyped ==
  ASSUME NEW bytes \in Seq(Byte), NEW i \in 1..(Len(bytes) + 1), NEW end \in 1..Len(bytes), i <= end
  PROVE  SubSeq(bytes, i, end) \in Seq(Byte) /\ SubSeq(bytes, i, end) # <<>>
<1>1. PICK n \in Nat : n = Len(bytes)
  BY LenProperties
<1>2. i \in 1..(Len(bytes) + 1) /\ end \in 0..Len(bytes) /\ i \in Nat /\ end \in Nat /\ i <= end
  BY <1>1
<1>3. SubSeq(bytes, i, end) \in Seq(Byte) /\ Len(SubSeq(bytes, i, end)) = end - i + 1
  BY <1>1, <1>2, SubSeqProperties
<1>4. Len(SubSeq(bytes, i, end)) # 0
  BY <1>2, <1>3
<1> QED
  BY <1>3, <1>4, EmptySeq, Zenon

LEMMA UnitsFromTyped ==
  ASSUME NEW bytes \in Seq(Byte), NEW normalizeCRLF, NEW i \in 1..(Len(bytes) + 1), NEW f,
         \A j \in (i + 1)..(Len(bytes) + 1) : f[j] \in Seq(UnitsOfInput)
  PROVE  UnitsFrom(f, bytes, normalizeCRLF, i) \in Seq(UnitsOfInput)
<1>1. PICK n \in Nat : n = Len(bytes)
  BY LenProperties
<1>2. CASE i > Len(bytes)
  BY <1>2, EmptySeq DEF UnitsFrom
<1>3. CASE ~(i > Len(bytes)) /\ normalizeCRLF /\ bytes[i] = CR /\ i < Len(bytes) /\ bytes[i + 1] = LF
  <2>1. i + 2 \in (i + 1)..(Len(bytes) + 1)
    BY <1>1, <1>3
  <2>2. CR \in Byte
    BY Codes
  <2>3. JoinPlain(CR, f[i + 2]) \in Seq(UnitsOfInput)
    BY <2>1, <2>2, JoinPlainTyped, Zenon
  <2> QED
    BY <1>3, <2>3, Zenon DEF UnitsFrom
<1>4. CASE /\ ~(i > Len(bytes))
           /\ ~(normalizeCRLF /\ bytes[i] = CR /\ i < Len(bytes) /\ bytes[i + 1] = LF)
           /\ bytes[i] # ESC
  <2>1. i + 1 \in (i + 1)..(Len(bytes) + 1) /\ i \in 1..Len(bytes)
    BY <1>1, <1>4
  <2>2. bytes[i] \in Byte
    BY <2>1, ElementOfSeq
  <2>3. JoinPlain(bytes[i], f[i + 1]) \in Seq(UnitsOfInput)
    BY <2>1, <2>2, JoinPlainTyped, Zenon
  <2> QED
    BY <1>4, <2>3, Zenon DEF UnitsFrom
<1>5. CASE /\ ~(i > Len(bytes))
           /\ ~(normalizeCRLF /\ bytes[i] = CR /\ i < Len(bytes) /\ bytes[i + 1] = LF)
           /\ ~(bytes[i] # ESC)
  <2>1. PICK end \in i..Len(bytes) : end = EscapeSequenceEnd(bytes, i)
    <3>1. i \in 1..Len(bytes)
      BY <1>1, <1>5
    <3> QED
      BY <3>1, EscapeEndsInTheData
  <2>2. end + 1 \in (i + 1)..(Len(bytes) + 1)
    BY <1>1
  <2>3. f[end + 1] \in Seq(UnitsOfInput)
    BY <2>2
  <2>4. SubSeq(bytes, i, end) \in Seq(Byte) /\ SubSeq(bytes, i, end) # <<>>
    <3>1. end \in 1..Len(bytes) /\ i <= end
      BY <1>1
    <3> QED
      BY <3>1, PartTyped, Zenon
  <2>5. PICK unit \in UnitsOfInput : unit = [data |-> SubSeq(bytes, i, end), escape |-> TRUE]
    BY <2>4 DEF UnitsOfInput
  <2>6. <<unit>> \o f[end + 1] \in Seq(UnitsOfInput)
    BY <2>3
  <2> QED
    BY <1>5, <2>1, <2>5, <2>6, Zenon DEF UnitsFrom
<1> QED
  BY <1>2, <1>3, <1>4, <1>5, Zenon

\* UnitsFrom uses f at later places only.
LEMMA UnitsFromLocal ==
  ASSUME NEW bytes \in Seq(Byte), NEW normalizeCRLF, NEW i \in 1..(Len(bytes) + 1), NEW f, NEW g,
         \A j \in (i + 1)..(Len(bytes) + 1) : f[j] = g[j]
  PROVE  UnitsFrom(f, bytes, normalizeCRLF, i) = UnitsFrom(g, bytes, normalizeCRLF, i)
<1>1. PICK n \in Nat : n = Len(bytes)
  BY LenProperties
<1>2. CASE i > Len(bytes)
  BY <1>2 DEF UnitsFrom
<1>3. CASE ~(i > Len(bytes))
  <2>1. f[i + 1] = g[i + 1]
    BY <1>1, <1>3
  <2>2. i < Len(bytes) => f[i + 2] = g[i + 2]
    BY <1>1, <1>3
  <2>3. f[EscapeSequenceEnd(bytes, i) + 1] = g[EscapeSequenceEnd(bytes, i) + 1]
    <3>1. i \in 1..Len(bytes)
      BY <1>1, <1>3
    <3>2. PICK end \in i..Len(bytes) : end = EscapeSequenceEnd(bytes, i)
      BY <3>1, EscapeEndsInTheData
    <3>3. end + 1 \in (i + 1)..(Len(bytes) + 1)
      BY <1>1
    <3> QED
      BY <3>2, <3>3, Zenon
  <2> QED
    BY <1>3, <2>1, <2>2, <2>3, Zenon DEF UnitsFrom
<1> QED
  BY <1>2, <1>3

\* The units from each place on.
LEMMA SplitRuns ==
  ASSUME NEW bytes \in Seq(Byte), NEW normalizeCRLF
  PROVE  \E f : /\ \A i \in 1..(Len(bytes) + 1) : /\ f[i] = UnitsFrom(f, bytes, normalizeCRLF, i)
                                                  /\ f[i] \in Seq(UnitsOfInput)
                /\ Split(bytes, normalizeCRLF) = f[1]
<1>1. PICK n \in Nat : n = Len(bytes)
  BY LenProperties
<1>2. ASSUME NEW f, SplitsFrom(f, bytes, normalizeCRLF, 1)
      PROVE  \A i \in 1..(n + 1) : f[i] = UnitsFrom(f, bytes, normalizeCRLF, i) /\ f[i] \in Seq(UnitsOfInput)
  <2>1. \A i \in 1..(n + 1) : f[i] = UnitsFrom(f, bytes, normalizeCRLF, i)
    BY <1>1, <1>2 DEF SplitsFrom
  <2> DEFINE S == {k \in Nat : \A i \in 1..(n + 1) : i + k >= n + 1 => f[i] \in Seq(UnitsOfInput)}
  <2>2. ASSUME NEW i \in 1..(n + 1), \A j \in (i + 1)..(n + 1) : f[j] \in Seq(UnitsOfInput)
        PROVE  f[i] \in Seq(UnitsOfInput)
    BY <1>1, <2>1, <2>2, UnitsFromTyped, ZenonT(60)
  <2>3. 0 \in S
    <3> SUFFICES ASSUME NEW i \in 1..(n + 1), i + 0 >= n + 1
                 PROVE  f[i] \in Seq(UnitsOfInput)
      OBVIOUS
    <3>1. \A j \in (i + 1)..(n + 1) : f[j] \in Seq(UnitsOfInput)
      OBVIOUS
    <3> QED
      BY <2>2, <3>1, Zenon
  <2>4. ASSUME NEW k \in Nat, k \in S
        PROVE  k + 1 \in S
    <3> SUFFICES ASSUME NEW i \in 1..(n + 1), i + (k + 1) >= n + 1
                 PROVE  f[i] \in Seq(UnitsOfInput)
      OBVIOUS
    <3>1. ASSUME NEW j \in (i + 1)..(n + 1)
          PROVE  f[j] \in Seq(UnitsOfInput)
      <4>1. j \in 1..(n + 1) /\ j + k >= n + 1
        OBVIOUS
      <4> QED
        BY <2>4, <4>1, Zenon
    <3> QED
      BY <2>2, <3>1, Zenon
  <2>5. Nat \subseteq S
    <3> HIDE DEF S
    <3> QED
      BY <2>3, <2>4, NatSetInduction
  <2>6. n \in S
    <3> HIDE DEF S
    <3> QED
      BY <2>5
  <2>7. \A i \in 1..(n + 1) : i + n >= n + 1
    OBVIOUS
  <2> QED
    BY <2>1, <2>6, <2>7, Zenon
<1>3. \E f : SplitsFrom(f, bytes, normalizeCRLF, 1)
  <2> DEFINE S == {k \in Nat : k <= n => \E f : SplitsFrom(f, bytes, normalizeCRLF, (n + 1) - k)}
  <2>1. 0 \in S
    <3>1. PICK f : f = [i \in (n + 1)..(n + 1) |-> <<>>]
      OBVIOUS
    <3>2. \A i \in (n + 1)..(n + 1) : UnitsFrom(f, bytes, normalizeCRLF, i) = <<>>
      BY <1>1 DEF UnitsFrom
    <3>3. f = [i \in (n + 1)..(n + 1) |-> UnitsFrom(f, bytes, normalizeCRLF, i)]
      BY <3>1, <3>2
    <3>4. SplitsFrom(f, bytes, normalizeCRLF, n + 1)
      BY <1>1, <3>3, Zenon DEF SplitsFrom
    <3>5. (n + 1) - 0 = n + 1
      OBVIOUS
    <3> QED
      BY <3>4, <3>5
  <2>2. ASSUME NEW k \in Nat, k \in S
        PROVE  k + 1 \in S
    <3> SUFFICES ASSUME k + 1 <= n
                 PROVE  \E f : SplitsFrom(f, bytes, normalizeCRLF, (n + 1) - (k + 1))
      OBVIOUS
    <3>0. PICK m \in 1..n : m = (n + 1) - (k + 1) /\ (n + 1) - k = m + 1
      OBVIOUS
    <3>1. PICK f : SplitsFrom(f, bytes, normalizeCRLF, m + 1)
      BY <2>2, <3>0
    <3>2. f = [i \in (m + 1)..(n + 1) |-> UnitsFrom(f, bytes, normalizeCRLF, i)]
      BY <1>1, <3>1, Zenon DEF SplitsFrom
    <3>3. PICK g : g = [i \in m..(n + 1) |-> IF i = m THEN UnitsFrom(f, bytes, normalizeCRLF, i) ELSE f[i]]
      OBVIOUS
    <3>4. \A j \in (m + 1)..(n + 1) : f[j] = g[j]
      BY <3>3
    <3>5. ASSUME NEW i \in m..(n + 1)
          PROVE  g[i] = UnitsFrom(g, bytes, normalizeCRLF, i)
      <4>1. g[i] = UnitsFrom(f, bytes, normalizeCRLF, i)
        <5>1. CASE i = m
          BY <3>3, <5>1, Zenon
        <5>2. CASE i # m
          <6>1. i \in (m + 1)..(n + 1)
            BY <5>2
          <6>2. g[i] = f[i] /\ f[i] = UnitsFrom(f, bytes, normalizeCRLF, i)
            BY <3>2, <3>4, <6>1, Zenon
          <6> QED
            BY <6>2
        <5> QED
          BY <5>1, <5>2
      <4>2. i \in 1..(Len(bytes) + 1) /\ \A j \in (i + 1)..(Len(bytes) + 1) : f[j] = g[j]
        BY <1>1, <3>4
      <4> QED
        BY <4>1, <4>2, UnitsFromLocal, Zenon
    <3>6. SplitsFrom(g, bytes, normalizeCRLF, m)
      BY <1>1, <3>3, <3>5, Zenon DEF SplitsFrom
    <3> QED
      BY <3>0, <3>6
  <2>3. Nat \subseteq S
    <3> HIDE DEF S
    <3> QED
      BY <2>1, <2>2, NatSetInduction
  <2>4. n \in S /\ (n + 1) - n = 1
    BY <2>3
  <2> QED
    BY <2>4
<1>4. Split(bytes, normalizeCRLF) = (CHOOSE f : SplitsFrom(f, bytes, normalizeCRLF, 1))[1]
  BY Zenon DEF Split, SplitsFrom, UnitsFrom
<1>5. SplitsFrom(CHOOSE f : SplitsFrom(f, bytes, normalizeCRLF, 1), bytes, normalizeCRLF, 1)
  BY <1>3, Zenon
<1>6. PICK f : SplitsFrom(f, bytes, normalizeCRLF, 1) /\ Split(bytes, normalizeCRLF) = f[1]
  BY <1>4, <1>5, Zenon
<1>7. \A i \in 1..(n + 1) : f[i] = UnitsFrom(f, bytes, normalizeCRLF, i) /\ f[i] \in Seq(UnitsOfInput)
  BY <1>2, <1>6, Zenon
<1> QED
  BY <1>1, <1>6, <1>7, Zenon

LEMMA SplitTyped ==
  ASSUME NEW bytes \in Seq(Byte), NEW normalizeCRLF
  PROVE  Split(bytes, normalizeCRLF) \in Seq(UnitsOfInput)
<1>1. PICK f : /\ \A i \in 1..(Len(bytes) + 1) : f[i] \in Seq(UnitsOfInput)
               /\ Split(bytes, normalizeCRLF) = f[1]
  BY SplitRuns, Zenon
<1>2. 1 \in 1..(Len(bytes) + 1)
  BY LenProperties
<1> QED
  BY <1>1, <1>2, Zenon

LEMMA EncodeTyped ==
  ASSUME NEW bytes \in Seq(Byte)
  PROVE  Encode(bytes) \in Seq(Byte)
<1>1. PICK n \in Nat : n = Len(bytes) /\ DOMAIN bytes = 1..n
  BY LenProperties
<1>2. IAC \in Byte
  BY Codes
<1>3. \A i \in 1..n : bytes[i] \in Byte
  BY <1>1, ElementOfSeq
<1>4. [i \in 1..n |-> IF bytes[i] = IAC THEN <<IAC, IAC>> ELSE <<bytes[i]>>] \in Seq(Seq(Byte))
  BY <1>2, <1>3
<1> QED
  BY <1>1, <1>4, FlattenTyped, Zenon DEF Encode

LEMMA ElementsMakeSeq ==
  ASSUME NEW T, NEW n \in Nat, NEW s, DOMAIN s = 1..n, s = [i \in 1..n |-> s[i]], \A i \in 1..n : s[i] \in T
  PROVE  s \in Seq(T) /\ Len(s) = n
OBVIOUS

-----------------------------------------------------------------------------
(* Concatenation.                                                          *)

Joins(w, a, b) == w = a \o b

\* Three parts may be put together in either order.
LEMMA JoinsRight ==
  ASSUME NEW a \in Seq(Byte), NEW b \in Seq(Byte), NEW d \in Seq(Byte), NEW left, NEW right, NEW w,
         Joins(left, a, b), Joins(right, b, d), Joins(w, left, d)
  PROVE  Joins(w, a, right)
<1>1. left = a \o b /\ right = b \o d /\ w = left \o d
  BY DEF Joins
<1>2. (a \o b) \o d = a \o (b \o d)
  BY ConcatAssociative
<1> QED
  BY <1>1, <1>2, Zenon DEF Joins

LEMMA JoinsLeft ==
  ASSUME NEW a \in Seq(Byte), NEW b \in Seq(Byte), NEW d \in Seq(Byte), NEW left, NEW right, NEW w,
         Joins(left, a, b), Joins(right, b, d), Joins(w, a, right)
  PROVE  Joins(w, left, d)
<1>1. left = a \o b /\ right = b \o d /\ w = a \o right
  BY DEF Joins
<1>2. (a \o b) \o d = a \o (b \o d)
  BY ConcatAssociative
<1> QED
  BY <1>1, <1>2, Zenon DEF Joins

-----------------------------------------------------------------------------
(* The meaning of a stream: how far an item reaches, and that it does not  *)
(* change when the stream goes on.                                         *)

\* t begins with s.
Begins(t, s) == Len(s) <= Len(t) /\ \A j \in 1..Len(s) : t[j] = s[j]

LEMMA Commands ==
  /\ IAC \notin Negotiations /\ IAC # SB /\ IAC # SE /\ SB \notin Negotiations
  /\ DO # WILL /\ DO \in Negotiations /\ WILL \in Negotiations
BY DEF Negotiations, IAC, SB, SE, WILL, WONT, DO, DONT

LEMMA LeastOf ==
  ASSUME NEW S, S \subseteq Nat, S # {}
  PROVE  Min(S) \in S /\ \A y \in S : Min(S) <= y
<1>1. PICK x \in S : \A y \in S : x <= y
  BY LeastExists
<1> QED
  BY <1>1, Zenon DEF Min

LEMMA GreatestOf ==
  ASSUME NEW n \in Nat, NEW S, S \subseteq 0..n, S # {}
  PROVE  Max(S) \in S /\ \A y \in S : y <= Max(S)
<1> DEFINE T == {k \in Nat : n - k \in S}
<1>1. PICK z \in S : TRUE
  OBVIOUS
<1>2. n - z \in T
  <2>1. n - z \in Nat /\ n - (n - z) = z
    BY <1>1
  <2> QED
    BY <1>1, <2>1
<1>3. PICK x \in T : \A y \in T : x <= y
  BY <1>2, LeastExists
<1>4. n - x \in S /\ x \in Nat
  BY <1>3
<1>5. \A y \in S : y <= n - x
  <2>1. TAKE y \in S
  <2>2. y \in 0..n /\ n - y \in Nat /\ n - (n - y) = y
    BY <2>1
  <2>3. n - y \in T
    BY <2>1, <2>2
  <2>4. x <= n - y
    BY <1>3, <2>3
  <2> QED
    BY <1>4, <2>2, <2>4
<1>6. \E m \in S : \A y \in S : m >= y
  <2>1. \A y \in S : n - x >= y
    <3>1. TAKE y \in S
    <3>2. y \in 0..n /\ y <= n - x
      BY <1>5, <3>1
    <3> QED
      BY <1>4, <3>2
  <2> QED
    BY <1>4, <2>1
<1>7. Max(S) \in S /\ \A y \in S : Max(S) >= y
  BY <1>6, Zenon DEF Max
<1>8. \A y \in S : y <= Max(S)
  BY <1>7
<1> QED
  BY <1>7, <1>8

LEMMA ItemLengthCases ==
  ASSUME NEW s \in Seq(Byte), NEW i \in 1..Len(s)
  PROVE  /\ s[i] # IAC => ItemLength(s, i) = 1
         /\ s[i] = IAC /\ i = Len(s) => ItemLength(s, i) = 0
         /\ s[i] = IAC /\ i < Len(s) /\ s[i + 1] \in Negotiations =>
              ItemLength(s, i) = IF i + 2 <= Len(s) THEN 3 ELSE 0
         /\ s[i] = IAC /\ i < Len(s) /\ s[i + 1] = SB =>
              ItemLength(s, i) = IF EndsOfSub(s, i) = {} THEN 0 ELSE Min(EndsOfSub(s, i)) + 2 - i
         /\ s[i] = IAC /\ i < Len(s) /\ s[i + 1] \notin Negotiations \cup {SB} => ItemLength(s, i) = 2
<1>1. Len(s) \in Nat
  BY LenProperties
<1>2. s[i] # IAC => ItemLength(s, i) = 1
  BY DEF ItemLength
<1>3. s[i] = IAC /\ i = Len(s) => ItemLength(s, i) = 0
  BY <1>1 DEF ItemLength
<1>4. ASSUME s[i] = IAC, i < Len(s)
      PROVE  ItemLength(s, i) =
               CASE s[i + 1] \in Negotiations -> IF i + 2 <= Len(s) THEN 3 ELSE 0
                 [] s[i + 1] = SB -> IF EndsOfSub(s, i) = {} THEN 0 ELSE Min(EndsOfSub(s, i)) + 2 - i
                 [] OTHER -> 2
  BY <1>1, <1>4 DEF ItemLength
<1>5. ASSUME s[i] = IAC, i < Len(s), s[i + 1] \in Negotiations
      PROVE  ItemLength(s, i) = IF i + 2 <= Len(s) THEN 3 ELSE 0
  BY <1>4, <1>5, Commands
<1>6. ASSUME s[i] = IAC, i < Len(s), s[i + 1] = SB
      PROVE  ItemLength(s, i) = IF EndsOfSub(s, i) = {} THEN 0 ELSE Min(EndsOfSub(s, i)) + 2 - i
  BY <1>4, <1>6, Commands
<1>7. ASSUME s[i] = IAC, i < Len(s), s[i + 1] \notin Negotiations \cup {SB}
      PROVE  ItemLength(s, i) = 2
  BY <1>4, <1>7
<1> QED
  BY <1>2, <1>3, <1>5, <1>6, <1>7

\* The first end of a subnegotiation lies within the stream.
LEMMA FirstEnd ==
  ASSUME NEW s \in Seq(Byte), NEW i \in 1..Len(s), EndsOfSub(s, i) # {}
  PROVE  /\ Min(EndsOfSub(s, i)) \in (i + 2)..(Len(s) - 1)
         /\ Min(EndsOfSub(s, i)) \in EndsOfSub(s, i)
         /\ \A k \in EndsOfSub(s, i) : Min(EndsOfSub(s, i)) <= k
<1>1. EndsOfSub(s, i) \subseteq (i + 2)..(Len(s) - 1) /\ Len(s) \in Nat
  BY LenProperties DEF EndsOfSub
<1>2. EndsOfSub(s, i) \subseteq Nat
  BY <1>1
<1> QED
  BY <1>1, <1>2, LeastOf

\* An item is not empty and does not reach beyond the end.
LEMMA ItemLengthRange ==
  ASSUME NEW s \in Seq(Byte), NEW i \in 1..Len(s)
  PROVE  ItemLength(s, i) \in 0..(Len(s) + 1 - i)
<1>1. Len(s) \in Nat
  BY LenProperties
<1>2. CASE s[i] = IAC /\ i < Len(s) /\ s[i + 1] = SB /\ EndsOfSub(s, i) # {}
  <2>1. PICK m : m = Min(EndsOfSub(s, i))
    OBVIOUS
  <2>2. m \in (i + 2)..(Len(s) - 1)
    BY <1>2, <2>1, FirstEnd
  <2>3. ItemLength(s, i) = m + 2 - i
    BY <1>2, <2>1, ItemLengthCases
  <2> QED
    BY <1>1, <2>2, <2>3
<1>3. CASE ~(s[i] = IAC /\ i < Len(s) /\ s[i + 1] = SB /\ EndsOfSub(s, i) # {})
  BY <1>1, <1>3, ItemLengthCases
<1> QED
  BY <1>2, <1>3

\* The ends of a subnegotiation in a stream that goes on.
LEMMA EndsOfSubGrow ==
  ASSUME NEW s \in Seq(Byte), NEW t \in Seq(Byte), Begins(t, s), NEW i \in 1..Len(s)
  PROVE  \A k \in (i + 2)..(Len(s) - 1) : k \in EndsOfSub(t, i) <=> k \in EndsOfSub(s, i)
<1>1. /\ Len(s) \in Nat /\ Len(t) \in Nat /\ Len(s) <= Len(t)
      /\ \A j \in 1..Len(s) : t[j] = s[j]
  BY LenProperties DEF Begins
<1>2. TAKE k \in (i + 2)..(Len(s) - 1)
<1>3. k \in (i + 2)..(Len(t) - 1) /\ k \in 1..Len(s) /\ k + 1 \in 1..Len(s)
  BY <1>1
<1>4. \A j \in (i + 1)..(k - 1) : j \in 1..Len(s)
  BY <1>1
<1>5. {j \in (i + 1)..(k - 1) : t[j] # IAC} = {j \in (i + 1)..(k - 1) : s[j] # IAC}
  BY <1>1, <1>4
<1>6. t[k] = s[k] /\ t[k + 1] = s[k + 1]
  BY <1>1, <1>3
<1> QED
  BY <1>2, <1>3, <1>5, <1>6 DEF EndsOfSub

\* A complete item stays what it is.
LEMMA ItemLengthStays ==
  ASSUME NEW s \in Seq(Byte), NEW t \in Seq(Byte), Begins(t, s), NEW i \in 1..Len(s), ItemLength(s, i) # 0
  PROVE  ItemLength(t, i) = ItemLength(s, i)
<1>1. /\ Len(s) \in Nat /\ Len(t) \in Nat /\ Len(s) <= Len(t)
      /\ \A j \in 1..Len(s) : t[j] = s[j]
  BY LenProperties DEF Begins
<1>2. i \in 1..Len(t) /\ t[i] = s[i]
  BY <1>1
<1>3. i < Len(s) => i + 1 \in 1..Len(s) /\ t[i + 1] = s[i + 1] /\ i < Len(t)
  BY <1>1
<1>4. CASE s[i] # IAC
  BY <1>2, <1>4, ItemLengthCases
<1>5. s[i] = IAC => i < Len(s)
  BY <1>1, ItemLengthCases
<1>6. CASE s[i] = IAC /\ s[i + 1] \in Negotiations
  <2>1. i + 2 <= Len(s)
    BY <1>5, <1>6, ItemLengthCases
  <2>2. i + 2 <= Len(t)
    BY <1>1, <2>1
  <2>3. ItemLength(s, i) = 3
    BY <1>5, <1>6, <2>1, ItemLengthCases
  <2>4. ItemLength(t, i) = 3
    BY <1>2, <1>3, <1>5, <1>6, <2>2, ItemLengthCases
  <2> QED
    BY <2>3, <2>4
<1>7. CASE s[i] = IAC /\ s[i + 1] \notin Negotiations \cup {SB}
  <2>1. ItemLength(s, i) = 2
    BY <1>5, <1>7, ItemLengthCases
  <2>2. ItemLength(t, i) = 2
    BY <1>2, <1>3, <1>5, <1>7, ItemLengthCases
  <2> QED
    BY <2>1, <2>2
<1>8. CASE s[i] = IAC /\ s[i + 1] = SB
  <2>1. EndsOfSub(s, i) # {}
    BY <1>5, <1>8, ItemLengthCases
  <2>2. PICK m : m = Min(EndsOfSub(s, i))
    OBVIOUS
  <2>3. /\ m \in (i + 2)..(Len(s) - 1) /\ m \in EndsOfSub(s, i)
        /\ \A k \in EndsOfSub(s, i) : m <= k
    BY <2>1, <2>2, FirstEnd
  <2>4. m \in EndsOfSub(t, i)
    BY <2>3, EndsOfSubGrow
  <2>5. PICK l : l = Min(EndsOfSub(t, i))
    OBVIOUS
  <2>6. /\ l \in (i + 2)..(Len(t) - 1) /\ l \in EndsOfSub(t, i) /\ l <= m
    BY <1>2, <2>4, <2>5, FirstEnd
  <2>7. l \in (i + 2)..(Len(s) - 1)
    BY <1>1, <2>3, <2>6
  <2>8. l \in EndsOfSub(s, i)
    BY <2>6, <2>7, EndsOfSubGrow
  <2>9. l = m
    BY <2>3, <2>6, <2>7, <2>8
  <2>10. ItemLength(s, i) = m + 2 - i
    BY <1>5, <1>8, <2>1, <2>2, ItemLengthCases
  <2>11. ItemLength(t, i) = m + 2 - i
    BY <1>2, <1>3, <1>5, <1>8, <2>4, <2>5, <2>9, ItemLengthCases
  <2> QED
    BY <2>10, <2>11
<1> QED
  BY <1>4, <1>6, <1>7, <1>8

-----------------------------------------------------------------------------
(* The items of a stream, from the item that begins at i on.               *)

ItemAt(s, i) == SubSeq(s, i, i + ItemLength(s, i) - 1)

NoItemAt(s, i) == i > Len(s) \/ ItemLength(s, i) = 0

ParseAt(f, s, i) == IF NoItemAt(s, i) THEN <<>> ELSE <<ItemAt(s, i)>> \o f[i + ItemLength(s, i)]

Parses(f, s, m) == f = [i \in m..(Len(s) + 1) |-> ParseAt(f, s, i)]

ItemsFrom(s, i) == (CHOOSE f : Parses(f, s, 1))[i]

LEMMA ItemAtTyped ==
  ASSUME NEW s \in Seq(Byte), NEW i \in 1..(Len(s) + 1), ~NoItemAt(s, i)
  PROVE  /\ i \in 1..Len(s)
         /\ i + ItemLength(s, i) \in (i + 1)..(Len(s) + 1)
         /\ ItemAt(s, i) \in Seq(Byte)
<1>1. PICK n \in Nat : n = Len(s)
  BY LenProperties
<1>2. i \in 1..n /\ ItemLength(s, i) # 0
  BY <1>1 DEF NoItemAt
<1>3. PICK l \in 0..(n + 1 - i) : l = ItemLength(s, i)
  BY <1>1, <1>2, ItemLengthRange
<1>4. i + l \in (i + 1)..(n + 1)
  BY <1>2, <1>3
<1>5. PICK k : k = i + l - 1
  OBVIOUS
<1>6. k \in i..n
  BY <1>2, <1>3, <1>5
<1>7. \A j \in i..k : s[j] \in Byte
  BY <1>1, <1>2, <1>6, ElementOfSeq
<1>8. SubSeq(s, i, k) \in Seq(Byte)
  BY <1>2, <1>6, <1>7, SubSeqProperties
<1> QED
  BY <1>1, <1>2, <1>3, <1>4, <1>5, <1>8 DEF ItemAt

LEMMA ParseAtLocal ==
  ASSUME NEW s \in Seq(Byte), NEW i \in 1..(Len(s) + 1), NEW f, NEW g,
         \A j \in (i + 1)..(Len(s) + 1) : f[j] = g[j]
  PROVE  ParseAt(f, s, i) = ParseAt(g, s, i)
<1>1. CASE NoItemAt(s, i)
  BY <1>1 DEF ParseAt
<1>2. CASE ~NoItemAt(s, i)
  <2>1. f[i + ItemLength(s, i)] = g[i + ItemLength(s, i)]
    BY <1>2, ItemAtTyped, Zenon
  <2> QED
    BY <2>1, Zenon DEF ParseAt
<1> QED
  BY <1>1, <1>2

LEMMA ParseExists ==
  ASSUME NEW s \in Seq(Byte)
  PROVE  \E f : Parses(f, s, 1)
<1>1. PICK n \in Nat : n = Len(s)
  BY LenProperties
<1> DEFINE S == {k \in Nat : k <= n => \E f : Parses(f, s, (n + 1) - k)}
<1>2. 0 \in S
  <2>1. PICK f : f = [i \in (n + 1)..(n + 1) |-> <<>>]
    OBVIOUS
  <2>2. \A i \in (n + 1)..(n + 1) : ParseAt(f, s, i) = <<>>
    BY <1>1 DEF ParseAt, NoItemAt
  <2>3. f = [i \in (n + 1)..(n + 1) |-> ParseAt(f, s, i)]
    BY <2>1, <2>2
  <2>4. Parses(f, s, n + 1)
    BY <1>1, <2>3, Zenon DEF Parses
  <2>5. (n + 1) - 0 = n + 1
    OBVIOUS
  <2> QED
    BY <2>4, <2>5
<1>3. ASSUME NEW k \in Nat, k \in S
      PROVE  k + 1 \in S
  <2> SUFFICES ASSUME k + 1 <= n
               PROVE  \E f : Parses(f, s, (n + 1) - (k + 1))
    OBVIOUS
  <2>1. PICK m \in 1..n : m = (n + 1) - (k + 1) /\ (n + 1) - k = m + 1
    OBVIOUS
  <2>2. PICK f : Parses(f, s, m + 1)
    BY <1>3, <2>1
  <2>3. f = [i \in (m + 1)..(n + 1) |-> ParseAt(f, s, i)]
    BY <1>1, <2>2, Zenon DEF Parses
  <2>4. PICK g : g = [i \in m..(n + 1) |-> IF i = m THEN ParseAt(f, s, i) ELSE f[i]]
    OBVIOUS
  <2>5. \A j \in (m + 1)..(n + 1) : f[j] = g[j]
    BY <2>4
  <2>6. ASSUME NEW i \in m..(n + 1)
        PROVE  g[i] = ParseAt(g, s, i)
    <3>1. g[i] = ParseAt(f, s, i)
      <4>1. CASE i = m
        BY <2>4, <4>1, Zenon
      <4>2. CASE i # m
        <5>1. i \in (m + 1)..(n + 1)
          BY <4>2
        <5>2. g[i] = f[i] /\ f[i] = ParseAt(f, s, i)
          BY <2>3, <2>5, <5>1, Zenon
        <5> QED
          BY <5>2
      <4> QED
        BY <4>1, <4>2
    <3>2. i \in 1..(Len(s) + 1) /\ \A j \in (i + 1)..(Len(s) + 1) : f[j] = g[j]
      BY <1>1, <2>5
    <3> QED
      BY <3>1, <3>2, ParseAtLocal, Zenon
  <2>7. Parses(g, s, m)
    BY <1>1, <2>4, <2>6, Zenon DEF Parses
  <2> QED
    BY <2>1, <2>7
<1>4. Nat \subseteq S
  <2> HIDE DEF S
  <2> QED
    BY <1>2, <1>3, NatSetInduction
<1>5. n \in S
  <2> HIDE DEF S
  <2> QED
    BY <1>4
<1>6. n <= n /\ (n + 1) - n = 1
  OBVIOUS
<1> QED
  BY <1>5, <1>6

\* Items, by the equation that defines it.
LEMMA ItemsUnfold ==
  ASSUME NEW s \in Seq(Byte)
  PROVE  /\ Items(s) = ItemsFrom(s, 1)
         /\ \A i \in 1..(Len(s) + 1) :
              /\ NoItemAt(s, i) => ItemsFrom(s, i) = <<>>
              /\ ~NoItemAt(s, i) =>
                   ItemsFrom(s, i) = <<ItemAt(s, i)>> \o ItemsFrom(s, i + ItemLength(s, i))
<1>1. Items(s) = ItemsFrom(s, 1)
  BY Zenon DEF Items, ItemsFrom, Parses, ParseAt, NoItemAt, ItemAt
<1>2. PICK f : f = (CHOOSE g : Parses(g, s, 1))
  OBVIOUS
<1>3. Parses(f, s, 1)
  BY <1>2, ParseExists, Zenon
<1>4. \A i \in 1..(Len(s) + 1) : f[i] = ParseAt(f, s, i)
  BY <1>3, Zenon DEF Parses
<1>5. \A i : ItemsFrom(s, i) = f[i]
  BY <1>2, Zenon DEF ItemsFrom
<1> QED
  BY <1>1, <1>4, <1>5, Zenon DEF ParseAt

LEMMA ItemsFromTyped ==
  ASSUME NEW s \in Seq(Byte)
  PROVE  \A i \in 1..(Len(s) + 1) : ItemsFrom(s, i) \in Seq(Seq(Byte))
<1>1. PICK n \in Nat : n = Len(s)
  BY LenProperties
<1> DEFINE S == {k \in Nat : \A i \in 1..(n + 1) : i + k >= n + 1 => ItemsFrom(s, i) \in Seq(Seq(Byte))}
<1>2. ASSUME NEW i \in 1..(n + 1), \A j \in (i + 1)..(n + 1) : ItemsFrom(s, j) \in Seq(Seq(Byte))
      PROVE  ItemsFrom(s, i) \in Seq(Seq(Byte))
  <2>1. CASE NoItemAt(s, i)
    BY <1>1, <2>1, ItemsUnfold, EmptySeq
  <2>2. CASE ~NoItemAt(s, i)
    <3>1. ItemsFrom(s, i) = <<ItemAt(s, i)>> \o ItemsFrom(s, i + ItemLength(s, i))
      BY <1>1, <2>2, ItemsUnfold
    <3>2. ItemAt(s, i) \in Seq(Byte) /\ i + ItemLength(s, i) \in (i + 1)..(n + 1)
      BY <1>1, <2>2, ItemAtTyped
    <3>3. ItemsFrom(s, i + ItemLength(s, i)) \in Seq(Seq(Byte))
      BY <1>2, <3>2, Zenon
    <3>4. <<ItemAt(s, i)>> \in Seq(Seq(Byte))
      BY <3>2
    <3> QED
      BY <3>1, <3>3, <3>4, ConcatProperties
  <2> QED
    BY <2>1, <2>2
<1>3. 0 \in S
  <2> SUFFICES ASSUME NEW i \in 1..(n + 1), i + 0 >= n + 1
               PROVE  ItemsFrom(s, i) \in Seq(Seq(Byte))
    OBVIOUS
  <2>1. \A j \in (i + 1)..(n + 1) : ItemsFrom(s, j) \in Seq(Seq(Byte))
    OBVIOUS
  <2> QED
    BY <1>2, <2>1, Zenon
<1>4. ASSUME NEW k \in Nat, k \in S
      PROVE  k + 1 \in S
  <2> SUFFICES ASSUME NEW i \in 1..(n + 1), i + (k + 1) >= n + 1
               PROVE  ItemsFrom(s, i) \in Seq(Seq(Byte))
    OBVIOUS
  <2>1. ASSUME NEW j \in (i + 1)..(n + 1)
        PROVE  ItemsFrom(s, j) \in Seq(Seq(Byte))
    <3>1. j \in 1..(n + 1) /\ j + k >= n + 1
      OBVIOUS
    <3> QED
      BY <1>4, <3>1, Zenon
  <2> QED
    BY <1>2, <2>1, Zenon
<1>5. Nat \subseteq S
  <2> HIDE DEF S
  <2> QED
    BY <1>3, <1>4, NatSetInduction
<1>6. \A i \in 1..(n + 1) : i + n >= n + 1
  OBVIOUS
<1>7. n \in S
  <2> HIDE DEF S
  <2> QED
    BY <1>5
<1> QED
  BY <1>1, <1>6, <1>7

-----------------------------------------------------------------------------
(* A stream up to a place: the items before it are those of the stream,    *)
(* and of every stream that goes on from it.                               *)

UpTo(s, e) ==
  /\ e \in 1..(Len(s) + 1)
  /\ NoItemAt(s, e)
  /\ \A t \in Seq(Byte) : Begins(t, s) => Items(t) = Items(s) \o ItemsFrom(t, e)

\* The stream ends with the end of an item.
Whole(s) == UpTo(s, Len(s) + 1)

LEMMA ItemsTyped ==
  ASSUME NEW s \in Seq(Byte)
  PROVE  Items(s) \in Seq(Seq(Byte))
<1>1. 1 \in 1..(Len(s) + 1)
  BY LenProperties
<1> QED
  BY <1>1, ItemsUnfold, ItemsFromTyped

LEMMA BeginsTransitive ==
  ASSUME NEW s \in Seq(Byte), NEW t \in Seq(Byte), NEW u \in Seq(Byte), Begins(t, s), Begins(u, t)
  PROVE  Begins(u, s)
<1>1. Len(s) \in Nat /\ Len(t) \in Nat /\ Len(u) \in Nat
  BY LenProperties
<1> QED
  BY <1>1 DEF Begins

LEMMA NothingSaid == <<>> \in Seq(Byte) /\ Whole(<<>>) /\ Items(<<>>) = <<>>
<1>1. PICK s : s = <<>>
  OBVIOUS
<1>2. s \in Seq(Byte) /\ Len(s) = 0 /\ NoItemAt(s, 1) /\ 1 \in 1..(Len(s) + 1)
  BY <1>1, EmptySeq DEF NoItemAt
<1>3. Items(s) = <<>>
  BY <1>2, ItemsUnfold
<1>4. ASSUME NEW t \in Seq(Byte)
      PROVE  Items(t) = Items(s) \o ItemsFrom(t, 1)
  <2>1. Items(t) = ItemsFrom(t, 1) /\ Items(t) \in Seq(Seq(Byte))
    BY ItemsUnfold, ItemsTyped
  <2> QED
    BY <1>3, <2>1, ConcatEmptySeq
<1>5. UpTo(s, 1)
  BY <1>2, <1>4 DEF UpTo
<1> QED
  BY <1>1, <1>2, <1>3, <1>5 DEF Whole

\* While the next item is not complete, nothing changes.
LEMMA ItemStaysOpen ==
  ASSUME NEW s \in Seq(Byte), NEW t \in Seq(Byte), NEW e, UpTo(s, e), Begins(t, s), NoItemAt(t, e)
  PROVE  UpTo(t, e) /\ Items(t) = Items(s)
<1>1. e \in 1..(Len(t) + 1)
  <2>1. e \in 1..(Len(s) + 1) /\ Len(s) \in Nat /\ Len(t) \in Nat /\ Len(s) <= Len(t)
    BY LenProperties DEF UpTo, Begins
  <2> QED
    BY <2>1
<1>2. ItemsFrom(t, e) = <<>>
  BY <1>1, ItemsUnfold
<1>3. Items(t) = Items(s)
  <2>1. Items(t) = Items(s) \o <<>>
    BY <1>2 DEF UpTo
  <2>2. Items(s) \in Seq(Seq(Byte))
    BY ItemsTyped
  <2> QED
    BY <2>1, <2>2, ConcatEmptySeq
<1>4. ASSUME NEW u \in Seq(Byte), Begins(u, t)
      PROVE  Items(u) = Items(t) \o ItemsFrom(u, e)
  <2>1. Begins(u, s)
    BY <1>4, BeginsTransitive
  <2> QED
    BY <1>3, <2>1 DEF UpTo
<1> QED
  BY <1>1, <1>3, <1>4 DEF UpTo

\* The next item is completed by the last byte.
LEMMA ItemEnds ==
  ASSUME NEW s \in Seq(Byte), NEW t \in Seq(Byte), NEW e, UpTo(s, e), Begins(t, s),
         e <= Len(t), ItemLength(t, e) = Len(t) + 1 - e
  PROVE  /\ Whole(t)
         /\ Items(t) = Append(Items(s), SubSeq(t, e, Len(t)))
         /\ SubSeq(t, e, Len(t)) \in Seq(Byte)
<1>1. PICK n \in Nat : n = Len(t)
  BY LenProperties
<1>2. e \in 1..n
  <2>1. e \in 1..(Len(s) + 1) /\ Len(s) \in Nat
    BY LenProperties DEF UpTo
  <2> QED
    BY <1>1, <2>1
<1>3. /\ ~NoItemAt(t, e) /\ e + ItemLength(t, e) = n + 1
      /\ e + ItemLength(t, e) - 1 = n
  <2>1. ItemLength(t, e) = n + 1 - e
    BY <1>1
  <2> QED
    BY <1>1, <1>2, <2>1 DEF NoItemAt
<1>4. PICK x : x = SubSeq(t, e, n)
  OBVIOUS
<1>5. x = ItemAt(t, e) /\ x \in Seq(Byte)
  <2>1. e \in 1..(Len(t) + 1)
    BY <1>1, <1>2
  <2> QED
    BY <1>3, <1>4, <2>1, ItemAtTyped DEF ItemAt
<1>6. ASSUME NEW u \in Seq(Byte), Begins(u, t)
      PROVE  Items(u) = Append(Items(s), x) \o ItemsFrom(u, n + 1)
  <2>1. /\ Len(u) \in Nat /\ n <= Len(u)
        /\ \A j \in 1..n : u[j] = t[j]
    BY <1>1, <1>6, LenProperties DEF Begins
  <2>2. ItemLength(u, e) = ItemLength(t, e)
    <3>1. ItemLength(t, e) # 0 /\ e \in 1..Len(t)
      BY <1>1, <1>2, <1>3 DEF NoItemAt
    <3> QED
      BY <1>6, <3>1, ItemLengthStays
  <2>3. e \in 1..(Len(u) + 1) /\ ~NoItemAt(u, e)
    <3>1. e \in 1..(Len(u) + 1) /\ e <= Len(u)
      BY <1>2, <2>1
    <3> QED
      BY <1>3, <2>2, <3>1 DEF NoItemAt
  <2>4. ItemAt(u, e) = x
    <3>1. ItemAt(u, e) = SubSeq(u, e, n)
      BY <1>3, <2>2 DEF ItemAt
    <3>2. SubSeq(u, e, n) = SubSeq(t, e, n)
      <4>1. \A j \in e..n : u[j] = t[j] /\ t[j] \in Byte
        BY <1>1, <1>2, <2>1, ElementOfSeq
      <4>2. /\ SubSeq(u, e, n) \in Seq(Byte) /\ SubSeq(t, e, n) \in Seq(Byte)
            /\ Len(SubSeq(u, e, n)) = n - e + 1 /\ Len(SubSeq(t, e, n)) = n - e + 1
            /\ \A j \in 1..(n - e + 1) : /\ SubSeq(u, e, n)[j] = u[e + j - 1]
                                         /\ SubSeq(t, e, n)[j] = t[e + j - 1]
        <5>1. \A j \in e..n : u[j] \in Byte
          BY <4>1
        <5> QED
          BY <1>2, <4>1, <5>1, SubSeqProperties
      <4>3. \A j \in 1..(n - e + 1) : e + j - 1 \in e..n
        BY <1>2
      <4>4. PICK a, b : a = SubSeq(u, e, n) /\ b = SubSeq(t, e, n)
        OBVIOUS
      <4>5. a \in Seq(Byte) /\ b \in Seq(Byte) /\ Len(a) = Len(b)
        BY <4>2, <4>4
      <4>6. \A j \in 1..Len(a) : a[j] = b[j]
        <5>1. TAKE j \in 1..Len(a)
        <5>2. j \in 1..(n - e + 1)
          BY <4>2, <4>4, <5>1
        <5>3. a[j] = u[e + j - 1] /\ b[j] = t[e + j - 1] /\ e + j - 1 \in e..n
          BY <4>2, <4>3, <4>4, <5>2
        <5> QED
          BY <4>1, <5>3
      <4> QED
        BY <4>4, <4>5, <4>6, SeqEqual
    <3> QED
      BY <1>4, <3>1, <3>2
  <2>5. ItemsFrom(u, e) = <<x>> \o ItemsFrom(u, n + 1)
    BY <1>3, <2>2, <2>3, <2>4, ItemsUnfold, Zenon
  <2>6. Items(u) = Items(s) \o ItemsFrom(u, e)
    <3>1. Begins(u, s)
      BY <1>6, BeginsTransitive
    <3> QED
      BY <3>1 DEF UpTo
  <2>7. /\ Items(s) \in Seq(Seq(Byte)) /\ <<x>> \in Seq(Seq(Byte))
        /\ ItemsFrom(u, n + 1) \in Seq(Seq(Byte))
    <3>1. n + 1 \in 1..(Len(u) + 1)
      BY <2>1
    <3> QED
      BY <1>5, <3>1, ItemsTyped, ItemsFromTyped
  <2>8. Append(Items(s), x) = Items(s) \o <<x>>
    BY <1>5, <2>7, AppendIsConcat
  <2> QED
    <3>1. (Items(s) \o <<x>>) \o ItemsFrom(u, n + 1) = Items(s) \o (<<x>> \o ItemsFrom(u, n + 1))
      <4>1. PICK a, b, d : a = Items(s) /\ b = <<x>> /\ d = ItemsFrom(u, n + 1)
        OBVIOUS
      <4>2. a \in Seq(Seq(Byte)) /\ b \in Seq(Seq(Byte)) /\ d \in Seq(Seq(Byte))
        BY <2>7, <4>1
      <4>3. (a \o b) \o d = a \o (b \o d)
        <5>1. PICK T : T = Seq(Byte)
          OBVIOUS
        <5>2. a \in Seq(T) /\ b \in Seq(T) /\ d \in Seq(T)
          BY <4>2, <5>1
        <5> QED
          BY <5>2, ConcatAssociative, SMTT(30)
      <4> QED
        BY <4>1, <4>3, Zenon
    <3> QED
      BY <2>5, <2>6, <2>8, <3>1, Zenon
<1>7. Items(t) = Append(Items(s), x)
  <2>1. Begins(t, t)
    BY <1>1 DEF Begins
  <2>2. Items(t) = Append(Items(s), x) \o ItemsFrom(t, n + 1)
    BY <1>6, <2>1
  <2>3. ItemsFrom(t, n + 1) = <<>>
    <3>1. n + 1 \in 1..(Len(t) + 1) /\ NoItemAt(t, n + 1)
      BY <1>1 DEF NoItemAt
    <3> QED
      BY <3>1, ItemsUnfold
  <2>4. Append(Items(s), x) \in Seq(Seq(Byte))
    BY <1>5, ItemsTyped, AppendProperties
  <2> QED
    BY <2>2, <2>3, <2>4, ConcatEmptySeq
<1>8. Whole(t)
  <2>1. Len(t) + 1 \in 1..(Len(t) + 1) /\ NoItemAt(t, Len(t) + 1) /\ Len(t) + 1 = n + 1
    BY <1>1 DEF NoItemAt
  <2> QED
    BY <1>6, <1>7, <2>1 DEF Whole, UpTo
<1> QED
  BY <1>1, <1>4, <1>5, <1>7, <1>8

-----------------------------------------------------------------------------
(* What an item adds to the meaning of a stream.                           *)

LEMMA GreetingOffers ==
  /\ Greeted(WILL) = {Echo, SuppressGA, Binary}
  /\ Greeted(DO) = {SuppressGA, Binary, NAWS, TerminalType}
<1>1. /\ Greeting = <<IAC, WILL, Echo,       IAC, WILL, SuppressGA, IAC, DO, SuppressGA,
                      IAC, WILL, Binary,     IAC, DO, Binary,       IAC, DO, NAWS,
                      IAC, DO, TerminalType>>
      /\ Len(Greeting) - 2 = 19
  BY DEF Greeting
<1>2. \A j \in 1..19 : Greeting[j] = IAC <=> j \in {1, 4, 7, 10, 13, 16, 19}
  BY <1>1 DEF IAC, WILL, DO, Echo, SuppressGA, Binary, NAWS, TerminalType
<1>3. \A j \in {1, 4, 7, 10, 13, 16, 19} : /\ Greeting[j + 1] = WILL <=> j \in {1, 4, 10}
                                           /\ Greeting[j + 1] = DO <=> j \in {7, 13, 16, 19}
  BY <1>1 DEF WILL, DO
<1>4. /\ {j \in 1..(Len(Greeting) - 2) : Greeting[j] = IAC /\ Greeting[j + 1] = WILL} = {1, 4, 10}
      /\ {j \in 1..(Len(Greeting) - 2) : Greeting[j] = IAC /\ Greeting[j + 1] = DO} = {7, 13, 16, 19}
  BY <1>1, <1>2, <1>3
<1>5. /\ Greeting[1 + 2] = Echo /\ Greeting[4 + 2] = SuppressGA /\ Greeting[10 + 2] = Binary
      /\ Greeting[7 + 2] = SuppressGA /\ Greeting[13 + 2] = Binary /\ Greeting[16 + 2] = NAWS
      /\ Greeting[19 + 2] = TerminalType
  BY <1>1
<1>6. Greeted(WILL) = {Greeting[i + 2] : i \in {1, 4, 10}}
  BY <1>4 DEF Greeted
<1>7. Greeted(DO) = {Greeting[i + 2] : i \in {7, 13, 16, 19}}
  BY <1>4 DEF Greeted
<1> QED
  BY <1>5, <1>6, <1>7

\* The refusals of the code are those that the greeting makes due.
LEMMA AnswersAreDue ==
  ASSUME NEW command \in Negotiations, NEW option \in Byte
  PROVE  Due(<<IAC, command, option>>) = Answer(command, option)
<1>1. PICK x : x = <<IAC, command, option>>
  OBVIOUS
<1>2. Len(x) = 3 /\ x[2] = command /\ x[3] = option
  BY <1>1
<1>3. CASE command = DO
  <2>1. /\ Negotiates(x, DO) /\ ~Negotiates(x, WILL)
    BY <1>2, <1>3, Commands DEF Negotiates
  <2> QED
    BY <1>1, <1>2, <1>3, <2>1, GreetingOffers, Commands DEF Due, Answer
<1>4. CASE command = WILL
  <2>1. /\ Negotiates(x, WILL) /\ ~Negotiates(x, DO)
    BY <1>2, <1>4, Commands DEF Negotiates
  <2> QED
    BY <1>1, <1>2, <1>4, <2>1, GreetingOffers, Commands DEF Due, Answer
<1>5. CASE command # DO /\ command # WILL
  <2>1. /\ ~Negotiates(x, WILL) /\ ~Negotiates(x, DO)
    BY <1>2, <1>5 DEF Negotiates
  <2> QED
    BY <1>1, <1>5, <2>1 DEF Due, Answer
<1> QED
  BY <1>3, <1>4, <1>5

LEMMA MeaningTyped ==
  ASSUME NEW x \in Seq(Byte)
  PROVE  Data(x) \in Seq(Byte) /\ Command(x) \in Seq(Byte) /\ Due(x) \in Seq(Byte)
<1>1. IsData(x) => x[1] \in Byte
  <2>1. IsData(x) => 1 \in 1..Len(x)
    BY DEF IsData
  <2> QED
    BY <2>1, ElementOfSeq
<1>2. Data(x) \in Seq(Byte)
  BY <1>1, EmptySeq DEF Data
<1>3. Command(x) \in Seq(Byte)
  BY EmptySeq DEF Command
<1>4. Due(x) \in Seq(Byte)
  <2>1. /\ {IAC, WONT, DONT} \subseteq Byte
    BY Codes DEF Negotiations
  <2>2. AskForTerminalType \in Seq(Byte)
    BY Codes DEF AskForTerminalType
  <2>3. Len(x) = 3 => x[3] \in Byte
    <3>1. Len(x) = 3 => 3 \in 1..Len(x)
      OBVIOUS
    <3> QED
      BY <3>1, ElementOfSeq
  <2>4. Len(x) = 3 => <<IAC, WONT, x[3]>> \in Seq(Byte) /\ <<IAC, DONT, x[3]>> \in Seq(Byte)
    BY <2>1, <2>3
  <2> QED
    BY <2>2, <2>4, EmptySeq DEF Due, Negotiates
<1> QED
  BY <1>2, <1>3, <1>4

\* The sequences that g makes of the elements of s, put together.
Mapped(g, s) == FlattenSeq([i \in DOMAIN s |-> g[s[i]]])

LEMMA MapAppend ==
  ASSUME NEW X, NEW items \in Seq(X), NEW x \in X, NEW g \in [X -> Seq(Byte)],
         NEW more, more = Append(items, x)
  PROVE  Mapped(g, more) = Mapped(g, items) \o g[x]
<1>1. PICK T : T = Seq(Byte)
  OBVIOUS
<1>2. PICK n \in Nat : n = Len(items) /\ DOMAIN items = 1..n
  BY LenProperties
<1>3. /\ more \in Seq(X) /\ DOMAIN more = 1..(n + 1)
      /\ \A i \in 1..n : more[i] = items[i]
      /\ more[n + 1] = x
  BY <1>1, <1>2, AppendProperties, LenProperties
<1>4. PICK a : a = [i \in 1..n |-> g[items[i]]]
  OBVIOUS
<1>5. \A i \in 1..n : items[i] \in X
  BY <1>1, <1>2, ElementOfSeq
<1>6. a \in Seq(T) /\ Len(a) = n
  BY <1>1, <1>4, <1>5
<1>7. g[x] \in T
  BY <1>1
<1>8. PICK b : b = [i \in 1..(n + 1) |-> g[more[i]]]
  OBVIOUS
<1>9. b = Append(a, g[x])
  <2>1. /\ Append(a, g[x]) \in Seq(T) /\ Len(Append(a, g[x])) = n + 1
        /\ \A i \in 1..n : Append(a, g[x])[i] = a[i]
        /\ Append(a, g[x])[n + 1] = g[x]
    BY <1>6, <1>7, AppendProperties
  <2>2. \A i \in 1..(n + 1) : b[i] = Append(a, g[x])[i]
    <3>1. TAKE i \in 1..(n + 1)
    <3>2. CASE i = n + 1
      BY <1>3, <1>8, <2>1, <3>2
    <3>3. CASE i # n + 1
      <4>1. i \in 1..n
        BY <3>3
      <4> QED
        BY <1>3, <1>4, <1>8, <2>1, <4>1
    <3> QED
      BY <3>2, <3>3
  <2>3. b \in Seq(T) /\ Len(b) = n + 1
    <3>1. \A i \in 1..(n + 1) : more[i] \in X
      <4>1. TAKE i \in 1..(n + 1)
      <4>2. i = n + 1 \/ i \in 1..n
        OBVIOUS
      <4> QED
        BY <1>1, <1>3, <1>5, <4>2
    <3>2. \A i \in 1..(n + 1) : g[more[i]] \in T
      BY <1>1, <3>1
    <3>3. PICK l \in Nat : l = n + 1
      OBVIOUS
    <3>4. \A i \in 1..l : b[i] \in T
      BY <1>8, <3>2, <3>3
    <3>5. DOMAIN b = 1..l
      BY <1>8, <3>3
    <3>6. b = [i \in 1..l |-> b[i]]
      BY <1>8, <3>3
    <3>7. b \in Seq(T) /\ DOMAIN b = 1..l
      BY <3>3, <3>4, <3>5, <3>6, ElementsMakeSeq
    <3>8. Len(b) = l
      BY <3>7, LenProperties
    <3> QED
      BY <3>3, <3>7, <3>8
  <2> QED
    BY <2>1, <2>2, <2>3, SeqEqual
<1>10. a \in Seq(Seq(Byte)) /\ g[x] \in Seq(Byte)
  BY <1>1, <1>6, <1>7
<1>11. FlattenSeq(b) = FlattenSeq(a) \o g[x]
  BY <1>9, <1>10, FlattenAppend, Zenon
<1> QED
  BY <1>2, <1>3, <1>4, <1>8, <1>11, Zenon DEF Mapped

LEMMA ItemAdds ==
  ASSUME NEW s \in Seq(Byte), NEW t \in Seq(Byte), NEW x \in Seq(Byte), Items(t) = Append(Items(s), x)
  PROVE  /\ DataIn(t) = DataIn(s) \o Data(x)
         /\ CommandsIn(t) = CommandsIn(s) \o Command(x)
         /\ AnswersTo(t) = AnswersTo(s) \o Due(x)
<1>1. PICK items \in Seq(Seq(Byte)) : items = Items(s)
  BY ItemsTyped
<1>2. PICK more \in Seq(Seq(Byte)) : more = Items(t) /\ more = Append(items, x)
  BY <1>1, ItemsTyped
<1>3. (\A i \in DOMAIN items : items[i] \in Seq(Byte)) /\ (\A i \in DOMAIN more : more[i] \in Seq(Byte))
  <2>1. PICK T : T = Seq(Byte)
    OBVIOUS
  <2>2. items \in Seq(T) /\ more \in Seq(T)
    BY <2>1
  <2>3. (\A i \in DOMAIN items : items[i] \in T) /\ (\A i \in DOMAIN more : more[i] \in T)
    BY <2>2, ElementOfSeq, LenProperties
  <2> QED
    BY <2>1, <2>3
<1>4. DataIn(t) = DataIn(s) \o Data(x)
  <2>1. PICK g \in [Seq(Byte) -> Seq(Byte)] : \A y \in Seq(Byte) : g[y] = Data(y)
    <3>1. [y \in Seq(Byte) |-> Data(y)] \in [Seq(Byte) -> Seq(Byte)]
      BY MeaningTyped
    <3> QED
      BY <3>1
  <2>2. [i \in DOMAIN items |-> Data(items[i])] = [i \in DOMAIN items |-> g[items[i]]]
    BY <1>3, <2>1
  <2>3. [i \in DOMAIN more |-> Data(more[i])] = [i \in DOMAIN more |-> g[more[i]]]
    BY <1>3, <2>1
  <2>4. Mapped(g, more) = Mapped(g, items) \o g[x]
    BY <1>2, MapAppend, Zenon
  <2>5. g[x] = Data(x)
    BY <2>1
  <2> QED
    BY <1>1, <1>2, <2>2, <2>3, <2>4, <2>5, Zenon DEF DataIn, Mapped
<1>5. CommandsIn(t) = CommandsIn(s) \o Command(x)
  <2>1. PICK g \in [Seq(Byte) -> Seq(Byte)] : \A y \in Seq(Byte) : g[y] = Command(y)
    <3>1. [y \in Seq(Byte) |-> Command(y)] \in [Seq(Byte) -> Seq(Byte)]
      BY MeaningTyped
    <3> QED
      BY <3>1
  <2>2. [i \in DOMAIN items |-> Command(items[i])] = [i \in DOMAIN items |-> g[items[i]]]
    BY <1>3, <2>1
  <2>3. [i \in DOMAIN more |-> Command(more[i])] = [i \in DOMAIN more |-> g[more[i]]]
    BY <1>3, <2>1
  <2>4. Mapped(g, more) = Mapped(g, items) \o g[x]
    BY <1>2, MapAppend, Zenon
  <2>5. g[x] = Command(x)
    BY <2>1
  <2> QED
    BY <1>1, <1>2, <2>2, <2>3, <2>4, <2>5, Zenon DEF CommandsIn, Mapped
<1>6. AnswersTo(t) = AnswersTo(s) \o Due(x)
  <2>1. PICK g \in [Seq(Byte) -> Seq(Byte)] : \A y \in Seq(Byte) : g[y] = Due(y)
    <3>1. [y \in Seq(Byte) |-> Due(y)] \in [Seq(Byte) -> Seq(Byte)]
      BY MeaningTyped
    <3> QED
      BY <3>1
  <2>2. [i \in DOMAIN items |-> Due(items[i])] = [i \in DOMAIN items |-> g[items[i]]]
    BY <1>3, <2>1
  <2>3. [i \in DOMAIN more |-> Due(more[i])] = [i \in DOMAIN more |-> g[more[i]]]
    BY <1>3, <2>1
  <2>4. Mapped(g, more) = Mapped(g, items) \o g[x]
    BY <1>2, MapAppend, Zenon
  <2>5. g[x] = Due(x)
    BY <2>1
  <2> QED
    BY <1>1, <1>2, <2>2, <2>3, <2>4, <2>5, Zenon DEF AnswersTo, Mapped
<1> QED
  BY <1>4, <1>5, <1>6

\* What a stream says is a sequence of bytes; an empty one says nothing.
LEMMA StreamMeaningTyped ==
  ASSUME NEW s \in Seq(Byte)
  PROVE  DataIn(s) \in Seq(Byte) /\ CommandsIn(s) \in Seq(Byte) /\ AnswersTo(s) \in Seq(Byte)
<1>1. PICK T : T = Seq(Byte)
  OBVIOUS
<1>2. PICK items \in Seq(T) : items = Items(s)
  BY <1>1, ItemsTyped
<1>3. PICK n \in Nat : n = Len(items) /\ DOMAIN items = 1..n
  BY LenProperties
<1>4. \A i \in 1..n : Data(items[i]) \in T /\ Command(items[i]) \in T /\ Due(items[i]) \in T
  <2>1. \A i \in 1..n : items[i] \in T
    BY <1>3, ElementOfSeq
  <2> QED
    BY <1>1, <2>1, MeaningTyped, Zenon
<1>5. [i \in 1..n |-> Data(items[i])] \in Seq(T)
  BY <1>4
<1>6. [i \in 1..n |-> Command(items[i])] \in Seq(T)
  BY <1>4
<1>7. [i \in 1..n |-> Due(items[i])] \in Seq(T)
  BY <1>4
<1> QED
  BY <1>1, <1>2, <1>3, <1>5, <1>6, <1>7, FlattenTyped, Zenon DEF DataIn, CommandsIn, AnswersTo

LEMMA NothingMeans == DataIn(<<>>) = <<>> /\ CommandsIn(<<>>) = <<>> /\ AnswersTo(<<>>) = <<>>
<1>1. PICK items : items = Items(<<>>)
  OBVIOUS
<1>2. items = <<>>
  BY <1>1, NothingSaid
<1>3. /\ [i \in DOMAIN items |-> Data(items[i])] = <<>>
      /\ [i \in DOMAIN items |-> Command(items[i])] = <<>>
      /\ [i \in DOMAIN items |-> Due(items[i])] = <<>>
  BY <1>2
<1> QED
  BY <1>1, <1>3, FlattenEmpty, Zenon DEF DataIn, CommandsIn, AnswersTo

\* t is s, and x after it.
GoesOn(t, s, x) ==
  /\ Len(t) = Len(s) + Len(x)
  /\ \A i \in 1..Len(x) : t[Len(s) + i] = x[i]

LEMMA JoinedAt ==
  ASSUME NEW s \in Seq(Byte), NEW x \in Seq(Byte), NEW t, Joins(t, s, x)
  PROVE  GoesOn(t, s, x)
<1>1. PICK n \in Nat, m \in Nat : n = Len(s) /\ m = Len(x)
  BY LenProperties
<1>2. t = s \o x
  BY DEF Joins
<1>3. Len(t) = n + m /\ \A i \in 1..(n + m) : t[i] = IF i <= n THEN s[i] ELSE x[i - n]
  BY <1>1, <1>2, ConcatProperties
<1>4. ASSUME NEW i \in 1..m
      PROVE  t[n + i] = x[i]
  <2>1. n + i \in 1..(n + m) /\ ~(n + i <= n) /\ (n + i) - n = i
    BY <1>1
  <2> QED
    BY <1>3, <2>1
<1> QED
  BY <1>1, <1>3, <1>4 DEF GoesOn

-----------------------------------------------------------------------------
(* What is said after whole items: the data in it, and the rest.           *)

Adds(x, data, commands) ==
  \A s \in Seq(Byte) :
    Whole(s) => /\ Whole(s \o x)
                /\ Joins(DataIn(s \o x), DataIn(s), data)
                /\ Joins(CommandsIn(s \o x), CommandsIn(s), commands)

\* No data but only commands: what the gateway says for itself.
Neutral(x) == Adds(x, <<>>, x)

LEMMA AddsNothing == Neutral(<<>>)
<1> SUFFICES ASSUME NEW s \in Seq(Byte), Whole(s)
             PROVE  /\ Whole(s \o <<>>)
                    /\ Joins(DataIn(s \o <<>>), DataIn(s), <<>>)
                    /\ Joins(CommandsIn(s \o <<>>), CommandsIn(s), <<>>)
  BY Zenon DEF Neutral, Adds
<1>1. s \o <<>> = s
  BY ConcatEmptySeq
<1>2. DataIn(s) \o <<>> = DataIn(s) /\ CommandsIn(s) \o <<>> = CommandsIn(s)
  BY StreamMeaningTyped, ConcatEmptySeq
<1> QED
  BY <1>1, <1>2, Zenon DEF Joins

\* s \o x is an item more, if x is an item wherever it is said.
LEMMA AddsAnItem ==
  ASSUME NEW x \in Seq(Byte), x # <<>>,
         \A s \in Seq(Byte), t \in Seq(Byte) : Joins(t, s, x) => ItemLength(t, Len(s) + 1) = Len(x)
  PROVE  Adds(x, Data(x), Command(x))
<1> SUFFICES ASSUME NEW s \in Seq(Byte), Whole(s)
             PROVE  /\ Whole(s \o x)
                    /\ Joins(DataIn(s \o x), DataIn(s), Data(x))
                    /\ Joins(CommandsIn(s \o x), CommandsIn(s), Command(x))
  BY Zenon DEF Adds
<1>1. PICK t : t = s \o x
  OBVIOUS
<1>2. PICK n \in Nat : n = Len(s)
  BY LenProperties
<1>3. PICK m \in Nat : m = Len(x) /\ m > 0
  BY EmptySeq, LenProperties
<1>4. /\ t \in Seq(Byte) /\ Len(t) = n + m
      /\ \A i \in 1..(n + m) : t[i] = IF i <= n THEN s[i] ELSE x[i - n]
  BY <1>1, <1>2, <1>3, ConcatProperties
<1>5. Begins(t, s)
  <2>1. \A j \in 1..n : t[j] = s[j]
    BY <1>2, <1>3, <1>4
  <2> QED
    BY <1>2, <1>3, <1>4, <2>1 DEF Begins
<1>6. ItemLength(t, n + 1) = m
  <2>1. Joins(t, s, x)
    BY <1>1 DEF Joins
  <2> QED
    BY <1>2, <1>3, <1>4, <2>1, Zenon
<1>7. n + 1 <= Len(t) /\ Len(t) + 1 - (n + 1) = m
  BY <1>2, <1>3, <1>4
<1>8. SubSeq(t, n + 1, Len(t)) = x
  <2>1. PICK y : y = SubSeq(t, n + 1, n + m)
    OBVIOUS
  <2>2. \A j \in (n + 1)..(n + m) : t[j] \in Byte
    <3>1. \A j \in (n + 1)..(n + m) : j \in 1..Len(t)
      BY <1>2, <1>3, <1>4
    <3> QED
      BY <1>4, <3>1, ElementOfSeq
  <2>3. /\ y \in Seq(Byte)
        /\ Len(y) = IF n + 1 <= n + m THEN (n + m) - (n + 1) + 1 ELSE 0
        /\ \A i \in 1..((n + m) - (n + 1) + 1) : y[i] = t[(n + 1) + i - 1]
    BY <1>2, <1>3, <2>1, <2>2, SubSeqProperties
  <2>4. Len(y) = m /\ (n + m) - (n + 1) + 1 = m
    BY <1>2, <1>3, <2>3
  <2>5. \A i \in 1..m : y[i] = x[i]
    <3>1. TAKE i \in 1..m
    <3>2. (n + 1) + i - 1 \in 1..(n + m) /\ ~((n + 1) + i - 1 <= n) /\ ((n + 1) + i - 1) - n = i
      BY <1>2, <1>3
    <3>3. y[i] = t[(n + 1) + i - 1]
      BY <2>3, <2>4
    <3> QED
      BY <1>4, <3>2, <3>3
  <2>6. y = x
    BY <1>3, <2>3, <2>4, <2>5, SeqEqual
  <2> QED
    BY <1>4, <2>1, <2>6
<1>9. UpTo(s, n + 1)
  BY <1>2 DEF Whole
<1>10. Whole(t) /\ Items(t) = Append(Items(s), x)
  <2>1. ItemLength(t, n + 1) = Len(t) + 1 - (n + 1)
    BY <1>6, <1>7
  <2> QED
    BY <1>4, <1>5, <1>7, <1>8, <1>9, <2>1, ItemEnds
<1>11. DataIn(t) = DataIn(s) \o Data(x) /\ CommandsIn(t) = CommandsIn(s) \o Command(x)
  BY <1>4, <1>10, ItemAdds
<1> QED
  BY <1>1, <1>10, <1>11, Zenon DEF Joins

LEMMA AddsBoth ==
  ASSUME NEW x \in Seq(Byte), NEW y \in Seq(Byte),
         NEW d \in Seq(Byte), NEW e \in Seq(Byte), NEW c \in Seq(Byte), NEW f \in Seq(Byte),
         Adds(x, d, c), Adds(y, e, f)
  PROVE  Adds(x \o y, d \o e, c \o f)
<1> SUFFICES ASSUME NEW s \in Seq(Byte), Whole(s)
             PROVE  /\ Whole(s \o (x \o y))
                    /\ Joins(DataIn(s \o (x \o y)), DataIn(s), d \o e)
                    /\ Joins(CommandsIn(s \o (x \o y)), CommandsIn(s), c \o f)
  BY Zenon DEF Adds
<1>1. PICK t : t = s \o x
  OBVIOUS
<1>2. t \in Seq(Byte)
  BY <1>1, ConcatProperties
<1>3. /\ Whole(t)
      /\ Joins(DataIn(t), DataIn(s), d)
      /\ Joins(CommandsIn(t), CommandsIn(s), c)
  BY <1>1, Zenon DEF Adds
<1>4. PICK u : u = t \o y
  OBVIOUS
<1>5. /\ Whole(u)
      /\ Joins(DataIn(u), DataIn(t), e)
      /\ Joins(CommandsIn(u), CommandsIn(t), f)
  BY <1>2, <1>3, <1>4, Zenon DEF Adds
<1>6. u = s \o (x \o y)
  <2>1. Joins(t, s, x) /\ Joins(x \o y, x, y) /\ Joins(u, t, y)
    BY <1>1, <1>4 DEF Joins
  <2>2. Joins(u, s, x \o y)
    BY <2>1, JoinsRight, SMTT(60)
  <2> QED
    BY <2>2 DEF Joins
<1>7. DataIn(s) \in Seq(Byte) /\ CommandsIn(s) \in Seq(Byte)
  BY StreamMeaningTyped
<1>8. Joins(DataIn(u), DataIn(s), d \o e)
  <2>1. Joins(d \o e, d, e)
    BY DEF Joins
  <2> QED
    BY <1>3, <1>5, <1>7, <2>1, JoinsRight, SMTT(60)
<1>9. Joins(CommandsIn(u), CommandsIn(s), c \o f)
  <2>1. Joins(c \o f, c, f)
    BY DEF Joins
  <2> QED
    BY <1>3, <1>5, <1>7, <2>1, JoinsRight, SMTT(60)
<1> QED
  BY <1>5, <1>6, <1>8, <1>9, Zenon

LEMMA NeutralBoth ==
  ASSUME NEW x \in Seq(Byte), NEW y \in Seq(Byte), Neutral(x), Neutral(y)
  PROVE  Neutral(x \o y)
<1>1. PICK none \in Seq(Byte) : none = <<>>
  BY EmptySeq
<1>2. Adds(x, none, x) /\ Adds(y, none, y)
  BY <1>1, Zenon DEF Neutral
<1>3. Adds(x \o y, none \o none, x \o y)
  BY <1>1, <1>2, AddsBoth, Zenon
<1>4. none \o none = none
  BY <1>1, ConcatEmptySeq
<1> QED
  BY <1>1, <1>3, <1>4, Zenon DEF Neutral

\* The items the gateway sends: a byte, a pair of IAC, a negotiation, and the
\* question for the terminal type.
LEMMA AddsAByte ==
  ASSUME NEW x \in Seq(Byte), Len(x) = 1, x[1] # IAC
  PROVE  Adds(x, x, <<>>)
<1>1. ASSUME NEW s \in Seq(Byte), NEW t \in Seq(Byte), Joins(t, s, x)
      PROVE  ItemLength(t, Len(s) + 1) = 1
  <2>1. /\ Len(s) \in Nat /\ Len(t) = Len(s) + 1
        /\ t[Len(s) + 1] = x[1]
    <3>0. Len(t) = Len(s) + Len(x) /\ \A i \in 1..Len(x) : t[Len(s) + i] = x[i]
      <4>1. GoesOn(t, s, x)
        BY <1>1, JoinedAt, Zenon
      <4> QED
        BY <4>1 DEF GoesOn
    <3>1. 1 \in 1..Len(x) /\ Len(s) \in Nat
      BY LenProperties
    <3> QED
      BY <3>0, <3>1
  <2>2. Len(s) + 1 \in 1..Len(t)
    BY <2>1
  <2> QED
    BY <2>1, <2>2, ItemLengthCases
<1>2. x # <<>>
  BY EmptySeq
<1>3. Adds(x, Data(x), Command(x))
  BY <1>1, <1>2, AddsAnItem, Zenon
<1>4. Data(x) = <<x[1]>> /\ Command(x) = <<>>
  BY DEF Data, Command, IsData
<1>5. x = <<x[1]>>
  OBVIOUS
<1> QED
  BY <1>3, <1>4, <1>5, Zenon

LEMMA AddsAPair ==
  ASSUME NEW x, x = <<IAC, IAC>>
  PROVE  Adds(x, <<IAC>>, <<>>)
<1>1. x \in Seq(Byte) /\ Len(x) = 2 /\ x[1] = IAC /\ x[2] = IAC /\ x # <<>>
  BY Codes, EmptySeq
<1>2. ASSUME NEW s \in Seq(Byte), NEW t \in Seq(Byte), Joins(t, s, x)
      PROVE  ItemLength(t, Len(s) + 1) = 2
  <2>1. /\ Len(s) \in Nat /\ Len(t) = Len(s) + 2
        /\ t[Len(s) + 1] = IAC /\ t[(Len(s) + 1) + 1] = IAC
    <3>0. Len(t) = Len(s) + Len(x) /\ \A i \in 1..Len(x) : t[Len(s) + i] = x[i]
      <4>1. GoesOn(t, s, x)
        BY <1>1, <1>2, JoinedAt, Zenon
      <4> QED
        BY <4>1 DEF GoesOn
    <3>1. 1 \in 1..Len(x) /\ 2 \in 1..Len(x) /\ Len(s) \in Nat
      BY <1>1, LenProperties
    <3>2. t[Len(s) + 1] = IAC /\ t[Len(s) + 2] = IAC /\ Len(t) = Len(s) + 2
      BY <1>1, <3>0, <3>1
    <3>3. (Len(s) + 1) + 1 = Len(s) + 2
      BY <3>1
    <3> QED
      BY <3>1, <3>2, <3>3
  <2>2. Len(s) + 1 \in 1..Len(t) /\ Len(s) + 1 < Len(t)
    BY <2>1
  <2> QED
    BY <2>1, <2>2, ItemLengthCases, Commands
<1>3. Adds(x, Data(x), Command(x))
  BY <1>1, <1>2, AddsAnItem, Zenon
<1>4. IsData(x)
  BY DEF IsData
<1>5. Data(x) = <<IAC>> /\ Command(x) = <<>>
  BY <1>1, <1>4 DEF Data, Command
<1> QED
  BY <1>3, <1>5, Zenon

LEMMA NegotiationIsNeutral ==
  ASSUME NEW x \in Seq(Byte), Len(x) = 3, x[1] = IAC, x[2] \in Negotiations
  PROVE  Neutral(x)
<1>1. ASSUME NEW s \in Seq(Byte), NEW t \in Seq(Byte), Joins(t, s, x)
      PROVE  ItemLength(t, Len(s) + 1) = 3
  <2>1. /\ Len(s) \in Nat /\ Len(t) = Len(s) + 3
        /\ t[Len(s) + 1] = IAC /\ t[(Len(s) + 1) + 1] \in Negotiations
    <3>0. Len(t) = Len(s) + Len(x) /\ \A i \in 1..Len(x) : t[Len(s) + i] = x[i]
      <4>1. GoesOn(t, s, x)
        BY <1>1, JoinedAt, Zenon
      <4> QED
        BY <4>1 DEF GoesOn
    <3>1. 1 \in 1..Len(x) /\ 2 \in 1..Len(x) /\ Len(s) \in Nat
      BY LenProperties
    <3>2. t[Len(s) + 1] = x[1] /\ t[Len(s) + 2] = x[2] /\ Len(t) = Len(s) + 3
      BY <3>0, <3>1
    <3>3. (Len(s) + 1) + 1 = Len(s) + 2
      BY <3>1
    <3> QED
      BY <3>1, <3>2, <3>3
  <2>2. Len(s) + 1 \in 1..Len(t) /\ Len(s) + 1 < Len(t) /\ (Len(s) + 1) + 2 <= Len(t)
    BY <2>1
  <2> QED
    BY <2>1, <2>2, ItemLengthCases
<1>2. x # <<>>
  BY EmptySeq
<1>3. Adds(x, Data(x), Command(x))
  BY <1>1, <1>2, AddsAnItem, Zenon
<1>4. x # <<IAC, IAC>>
  BY Commands
<1>5. Data(x) = <<>> /\ Command(x) = x
  BY <1>4 DEF Data, Command, IsData
<1> QED
  BY <1>3, <1>5, Zenon DEF Neutral

LEMMA QuestionIsNeutral == Neutral(AskForTerminalType)
<1>1. PICK x : x = AskForTerminalType
  OBVIOUS
<1>2. /\ x \in Seq(Byte) /\ Len(x) = 6 /\ x # <<>>
      /\ x[1] = IAC /\ x[2] = SB /\ x[3] # IAC /\ x[4] # IAC /\ x[5] = IAC /\ x[6] = SE
  <2>1. x = <<IAC, SB, TerminalType, Send, IAC, SE>>
    BY <1>1 DEF AskForTerminalType
  <2>2. TerminalType # IAC /\ Send # IAC
    BY DEF TerminalType, Send, IAC
  <2> QED
    BY <2>1, <2>2, Codes, EmptySeq
<1>3. ASSUME NEW s \in Seq(Byte), NEW t \in Seq(Byte), Joins(t, s, x)
      PROVE  ItemLength(t, Len(s) + 1) = 6
  <2>1. PICK n \in Nat : n = Len(s)
    BY LenProperties
  <2>2. /\ Len(t) = n + 6
        /\ t[n + 1] = IAC /\ t[n + 2] = SB /\ t[n + 3] # IAC /\ t[n + 4] # IAC
        /\ t[n + 5] = IAC /\ t[n + 6] = SE
    <3>0. Len(t) = Len(s) + Len(x) /\ \A i \in 1..Len(x) : t[Len(s) + i] = x[i]
      <4>1. GoesOn(t, s, x)
        BY <1>2, <1>3, JoinedAt, Zenon
      <4> QED
        BY <4>1 DEF GoesOn
    <3>1. \A i \in 1..6 : t[n + i] = x[i]
      BY <1>2, <2>1, <3>0, Zenon
    <3>2. Len(t) = n + 6
      BY <1>2, <2>1, <3>0, Zenon
    <3>3. 1 \in 1..6 /\ 2 \in 1..6 /\ 3 \in 1..6 /\ 4 \in 1..6 /\ 5 \in 1..6 /\ 6 \in 1..6
      OBVIOUS
    <3>4. /\ t[n + 1] = x[1] /\ t[n + 2] = x[2] /\ t[n + 3] = x[3]
          /\ t[n + 4] = x[4] /\ t[n + 5] = x[5] /\ t[n + 6] = x[6]
      BY <3>1, <3>3, Zenon
    <3> QED
      BY <1>2, <3>2, <3>4
  <2>3. PICK e : e = n + 1
    OBVIOUS
  <2>4. e \in 1..Len(t) /\ e < Len(t) /\ t[e] = IAC /\ t[e + 1] = SB
    BY <2>1, <2>2, <2>3
  <2>5. ItemLength(t, e) = IF EndsOfSub(t, e) = {} THEN 0 ELSE Min(EndsOfSub(t, e)) + 2 - e
    BY <2>4, ItemLengthCases
  <2>6. ASSUME NEW k \in EndsOfSub(t, e)
        PROVE  k = n + 5
    <3>1. k \in (e + 2)..(Len(t) - 1) /\ t[k] = IAC
      BY DEF EndsOfSub
    <3>2. k = n + 3 \/ k = n + 4 \/ k = n + 5
      BY <2>1, <2>2, <2>3, <3>1
    <3> QED
      BY <2>2, <3>1, <3>2
  <2>7. n + 5 \in EndsOfSub(t, e)
    <3>1. PICK S : S = {j \in (e + 1)..((n + 5) - 1) : t[j] # IAC}
      OBVIOUS
    <3>2. n + 4 \in S /\ S \subseteq 0..(n + 4)
      BY <2>1, <2>2, <2>3, <3>1
    <3>3. Max(S) \in S /\ \A j \in S : j <= Max(S)
      <4>1. n + 4 \in Nat /\ S # {}
        BY <2>1, <3>2
      <4> QED
        BY <3>2, <4>1, GreatestOf
    <3>4. Max(S) = n + 4
      <4>1. Max(S) \in 0..(n + 4) /\ n + 4 <= Max(S)
        BY <3>2, <3>3
      <4> QED
        BY <2>1, <4>1
    <3>5. ((n + 5) - Max(S)) % 2 = 1
      <4>1. (n + 5) - Max(S) = 1
        BY <2>1, <3>4
      <4> QED
        BY <4>1
    <3>6. n + 5 \in (e + 2)..(Len(t) - 1) /\ (n + 5) + 1 = n + 6
      BY <2>1, <2>2, <2>3
    <3> QED
      BY <2>2, <3>1, <3>5, <3>6 DEF EndsOfSub
  <2>8. EndsOfSub(t, e) # {} /\ Min(EndsOfSub(t, e)) = n + 5
    <3>1. EndsOfSub(t, e) # {}
      BY <2>7
    <3>2. Min(EndsOfSub(t, e)) \in EndsOfSub(t, e)
      BY <2>4, <3>1, FirstEnd
    <3> QED
      BY <2>6, <3>1, <3>2
  <2>9. ItemLength(t, e) = (n + 5) + 2 - e
    BY <2>5, <2>8
  <2>10. ItemLength(t, e) = 6
    BY <2>1, <2>3, <2>9
  <2> QED
    BY <2>1, <2>3, <2>10
<1>4. Adds(x, Data(x), Command(x))
  BY <1>2, <1>3, AddsAnItem, Zenon
<1>5. x # <<IAC, IAC>>
  BY <1>2
<1>6. Data(x) = <<>> /\ Command(x) = x
  BY <1>2, <1>5 DEF Data, Command, IsData
<1> QED
  BY <1>1, <1>4, <1>6, Zenon DEF Neutral

\* Whatever an item calls for is one of them.
LEMMA DueIsNeutral ==
  ASSUME NEW item \in Seq(Byte)
  PROVE  Neutral(Due(item))
<1>1. ASSUME Len(item) = 3, NEW command \in Negotiations
      PROVE  Neutral(<<IAC, command, item[3]>>)
  <2>1. item[3] \in Byte
    <3>1. 3 \in 1..Len(item)
      BY <1>1
    <3> QED
      BY <3>1, ElementOfSeq
  <2>2. PICK x : x = <<IAC, command, item[3]>>
    OBVIOUS
  <2>3. x \in Seq(Byte) /\ Len(x) = 3 /\ x[1] = IAC /\ x[2] \in Negotiations
    BY <1>1, <2>1, <2>2, Codes
  <2> QED
    BY <2>2, <2>3, NegotiationIsNeutral, Zenon
<1>2. WONT \in Negotiations /\ DONT \in Negotiations
  BY DEF Negotiations
<1> QED
  BY <1>1, <1>2, QuestionIsNeutral, AddsNothing, Zenon DEF Due, Negotiates

-----------------------------------------------------------------------------
(* The decoder: its state is where it stands in the meaning of what it has *)
(* been given, and what it has put out is the meaning.                     *)

\* Inside the subnegotiation that begins at e; an odd or even number of IACs
\* comes last.
InSub(s, e, odd) ==
  /\ e < Len(s) /\ s[e] = IAC /\ s[e + 1] = SB
  /\ \E m \in (e + 1)..Len(s) :
       /\ s[m] # IAC
       /\ \A j \in (m + 1)..Len(s) : s[j] = IAC
       /\ (Len(s) - m) % 2 = odd

\* Where a decoder stands that was given s.
Stands(s, e, d) ==
  \/ d.state = "data" /\ e = Len(s) + 1
  \/ d.state = "iac" /\ e = Len(s) /\ s[e] = IAC
  \/ d.state = "option" /\ e + 1 = Len(s) /\ s[e] = IAC /\ s[e + 1] = d.command
  \/ d.state = "sub" /\ InSub(s, e, 0)
  \/ d.state = "subIac" /\ InSub(s, e, 1)

Follows(s, d) == \E e \in 1..(Len(s) + 1) : UpTo(s, e) /\ Stands(s, e, d)

LEMMA SubGoesOn ==
  ASSUME NEW s \in Seq(Byte), NEW b \in Byte, NEW t \in Seq(Byte), t = Append(s, b),
         NEW e \in 1..Len(s), NEW odd \in {0, 1}, InSub(s, e, odd)
  PROVE  InSub(t, e, IF b = IAC THEN 1 - odd ELSE 0)
<1>1. PICK n \in Nat : n = Len(s) /\ Len(t) = n + 1
  BY LenProperties, AppendProperties
<1>2. (\A j \in 1..n : t[j] = s[j]) /\ t[n + 1] = b
  BY <1>1, AppendProperties
<1>3. e < n /\ s[e] = IAC /\ s[e + 1] = SB
  BY <1>1 DEF InSub
<1>4. PICK m \in (e + 1)..n : /\ s[m] # IAC
                              /\ \A j \in (m + 1)..n : s[j] = IAC
                              /\ (n - m) % 2 = odd
  BY <1>1 DEF InSub
<1>5. e < n + 1 /\ t[e] = IAC /\ t[e + 1] = SB
  BY <1>1, <1>2, <1>3
<1>6. CASE b = IAC
  <2>1. m \in (e + 1)..(n + 1) /\ t[m] # IAC
    <3>1. m \in 1..n /\ m \in (e + 1)..(n + 1)
      BY <1>3, <1>4
    <3> QED
      BY <1>2, <1>4, <3>1
  <2>2. \A j \in (m + 1)..(n + 1) : t[j] = IAC
    <3>1. TAKE j \in (m + 1)..(n + 1)
    <3>2. j = n + 1 \/ (j \in (m + 1)..n /\ j \in 1..n)
      BY <1>4
    <3> QED
      BY <1>2, <1>4, <1>6, <3>2
  <2>3. ((n + 1) - m) % 2 = 1 - odd
    <3>1. PICK r \in Nat : r = n - m /\ (n + 1) - m = r + 1
      BY <1>4
    <3>2. r % 2 = odd
      BY <1>4, <3>1
    <3>3. (r + 1) % 2 = 1 - odd
      BY <3>2
    <3> QED
      BY <3>1, <3>3
  <2> QED
    BY <1>1, <1>5, <1>6, <2>1, <2>2, <2>3 DEF InSub
<1>7. CASE b # IAC
  <2>1. n + 1 \in (e + 1)..(n + 1) /\ t[n + 1] # IAC /\ ((n + 1) - (n + 1)) % 2 = 0
    BY <1>2, <1>3, <1>7
  <2>2. \A j \in ((n + 1) + 1)..(n + 1) : t[j] = IAC
    OBVIOUS
  <2> QED
    BY <1>1, <1>5, <1>7, <2>1, <2>2 DEF InSub
<1> QED
  BY <1>6, <1>7

NoEnd(s, e) == EndsOfSub(s, e) = {}

EndsAt(s, e, k) == EndsOfSub(s, e) = {k}

\* The last byte ends the subnegotiation if it is SE after an odd number of
\* IACs, and only then.
LEMMA SubEnds ==
  ASSUME NEW s \in Seq(Byte), NEW b \in Byte, NEW t \in Seq(Byte), t = Append(s, b),
         NEW e \in 1..Len(s), NEW odd \in {0, 1}, InSub(s, e, odd), NoEnd(s, e)
  PROVE  /\ odd = 1 /\ b = SE => EndsAt(t, e, Len(s))
         /\ odd = 0 \/ b # SE => NoEnd(t, e)
<1>1. PICK n \in Nat : n = Len(s) /\ Len(t) = n + 1
  BY LenProperties, AppendProperties
<1>2. (\A j \in 1..n : t[j] = s[j]) /\ t[n + 1] = b
  BY <1>1, AppendProperties
<1>3. PICK m \in (e + 1)..n : /\ s[m] # IAC
                              /\ \A j \in (m + 1)..n : s[j] = IAC
                              /\ (n - m) % 2 = odd
  BY <1>1 DEF InSub
<1>4. e < n /\ e \in Nat
  BY <1>1 DEF InSub
<1>5. Begins(t, s)
  BY <1>1, <1>2 DEF Begins
<1>6. ASSUME NEW k \in EndsOfSub(t, e)
      PROVE  k = n
  <2>1. k \in (e + 2)..(n + 1 - 1)
    BY <1>1 DEF EndsOfSub
  <2>2. k \notin (e + 2)..(n - 1)
    BY <1>1, <1>5, <1>6, EndsOfSubGrow DEF NoEnd
  <2> QED
    BY <1>4, <2>1, <2>2
<1>7. n \in (e + 2)..(Len(t) - 1) => Max({j \in (e + 1)..(n - 1) : t[j] # IAC}) = m \/ m = n
  <2> SUFFICES ASSUME n \in (e + 2)..(Len(t) - 1), m # n
               PROVE  Max({j \in (e + 1)..(n - 1) : t[j] # IAC}) = m
    BY <1>3
  <2>1. PICK S : S = {j \in (e + 1)..(n - 1) : t[j] # IAC}
    OBVIOUS
  <2>2. m \in S
    BY <1>2, <1>3, <2>1
  <2>3. \A j \in S : j <= m
    <3>1. TAKE j \in S
    <3>2. j \in 1..n /\ t[j] # IAC
      BY <2>1, <1>4
    <3>3. s[j] # IAC
      BY <1>2, <3>2
    <3>4. j \notin (m + 1)..n
      BY <1>3, <3>3
    <3> QED
      BY <1>3, <3>2, <3>4
  <2>4. S \subseteq 0..n
    BY <1>4, <2>1
  <2>5. Max(S) \in S /\ \A j \in S : j <= Max(S)
    BY <2>2, <2>4, GreatestOf
  <2>6. Max(S) <= m /\ m <= Max(S) /\ Max(S) \in 0..n
    BY <2>2, <2>3, <2>4, <2>5
  <2>7. Max(S) = m
    BY <1>3, <1>4, <2>6
  <2> QED
    BY <2>1, <2>7
<1>8. n \in EndsOfSub(t, e) <=> odd = 1 /\ b = SE
  <2>1. ASSUME n \in EndsOfSub(t, e)
        PROVE  odd = 1 /\ b = SE
    <3>1. /\ n \in (e + 2)..(Len(t) - 1)
          /\ t[n] = IAC /\ t[n + 1] = SE
          /\ (n - Max({j \in (e + 1)..(n - 1) : t[j] # IAC})) % 2 = 1
      BY <2>1 DEF EndsOfSub
    <3>2. s[n] = IAC
      BY <1>2, <1>4, <3>1
    <3>3. Max({j \in (e + 1)..(n - 1) : t[j] # IAC}) = m
      BY <1>3, <1>7, <3>1, <3>2
    <3>4. (n - m) % 2 = 1
      BY <3>1, <3>3
    <3> QED
      BY <1>2, <1>3, <3>1, <3>4
  <2>2. ASSUME odd = 1, b = SE
        PROVE  n \in EndsOfSub(t, e)
    <3>1. m # n
      <4>1. m = n => (n - m) % 2 = 0
        OBVIOUS
      <4> QED
        BY <1>3, <2>2, <4>1
    <3>2. n \in (m + 1)..n /\ n \in (e + 2)..(Len(t) - 1) /\ n \in 1..n
      BY <1>1, <1>3, <3>1
    <3>3. t[n] = IAC /\ t[n + 1] = SE
      BY <1>2, <1>3, <2>2, <3>2
    <3>4. Max({j \in (e + 1)..(n - 1) : t[j] # IAC}) = m
      BY <1>7, <3>1, <3>2
    <3>5. (n - Max({j \in (e + 1)..(n - 1) : t[j] # IAC})) % 2 = 1
      BY <1>3, <2>2, <3>4
    <3> QED
      BY <3>2, <3>3, <3>5 DEF EndsOfSub
  <2> QED
    BY <2>1, <2>2
<1>9. odd = 1 /\ b = SE => EndsOfSub(t, e) = {n}
  BY <1>6, <1>8
<1>10. odd = 0 \/ b # SE => EndsOfSub(t, e) = {}
  BY <1>6, <1>8
<1> QED
  BY <1>1, <1>9, <1>10 DEF NoEnd, EndsAt

-----------------------------------------------------------------------------
(* One byte in Decode.                                                     *)

LEMMA ItemMeans ==
  ASSUME NEW x \in Seq(Byte)
  PROVE  /\ Len(x) = 1 => Data(x) = <<x[1]>> /\ Command(x) = <<>>
         /\ Len(x) = 2 /\ x[1] = IAC /\ x[2] = IAC => Data(x) = <<IAC>> /\ Command(x) = <<>>
         /\ Len(x) # 1 /\ x[2] # IAC => Data(x) = <<>> /\ Command(x) = x
         /\ Len(x) # 3 => Due(x) = <<>>
         /\ Len(x) = 3 /\ x[1] = IAC /\ x[2] \in Negotiations => Due(x) = Answer(x[2], x[3])
<1>1. Len(x) = 1 => Data(x) = <<x[1]>> /\ Command(x) = <<>>
  BY DEF Data, Command, IsData
<1>2. ASSUME Len(x) = 2, x[1] = IAC, x[2] = IAC
      PROVE  Data(x) = <<IAC>> /\ Command(x) = <<>>
  <2>1. PICK y : y = <<IAC, IAC>>
    OBVIOUS
  <2>2. y \in Seq(Byte) /\ Len(y) = 2 /\ y[1] = IAC /\ y[2] = IAC
    BY <2>1, Codes
  <2>3. \A i \in 1..2 : x[i] = y[i]
    BY <1>2, <2>2
  <2>4. x = y
    BY <1>2, <2>2, <2>3, SeqEqual
  <2>5. IsData(x)
    BY <2>1, <2>4 DEF IsData
  <2> QED
    BY <1>2, <2>5 DEF Data, Command
<1>3. ASSUME Len(x) # 1, x[2] # IAC
      PROVE  Data(x) = <<>> /\ Command(x) = x
  <2>1. x # <<IAC, IAC>>
    <3>1. <<IAC, IAC>>[2] = IAC
      OBVIOUS
    <3> QED
      BY <1>3, <3>1
  <2>2. ~IsData(x)
    BY <1>3, <2>1 DEF IsData
  <2> QED
    BY <2>2 DEF Data, Command
<1>4. Len(x) # 3 => Due(x) = <<>>
  BY DEF Due, Negotiates
<1>5. ASSUME Len(x) = 3, x[1] = IAC, x[2] \in Negotiations
      PROVE  Due(x) = Answer(x[2], x[3])
  <2>1. x[3] \in Byte /\ x[2] \in Byte
    <3>1. 3 \in 1..Len(x) /\ 2 \in 1..Len(x)
      BY <1>5
    <3> QED
      BY <3>1, ElementOfSeq
  <2>2. PICK y : y = <<IAC, x[2], x[3]>>
    OBVIOUS
  <2>3. y \in Seq(Byte) /\ Len(y) = 3 /\ y[1] = IAC /\ y[2] = x[2] /\ y[3] = x[3]
    BY <2>1, <2>2, Codes
  <2>4. \A i \in 1..3 : x[i] = y[i]
    BY <1>5, <2>3
  <2>5. x = y
    BY <1>5, <2>3, <2>4, SeqEqual
  <2>6. Due(y) = Answer(x[2], x[3])
    BY <1>5, <2>1, <2>2, AnswersAreDue
  <2> QED
    BY <2>5, <2>6
<1> QED
  BY <1>1, <1>2, <1>3, <1>4, <1>5

\* What a decoder puts out between two moments, and that it is what the stream
\* has come to mean.
PutsOut(s, t, d, r) ==
  /\ Follows(t, r)
  /\ \E x \in Seq(Byte) : r.data = d.data \o x /\ DataIn(t) = DataIn(s) \o x
  /\ \E x \in Seq(Byte) : r.reply = d.reply \o x /\ AnswersTo(t) = AnswersTo(s) \o x /\ Neutral(x)

LEMMA PutsOutNothing ==
  ASSUME NEW s \in Seq(Byte), NEW t \in Seq(Byte), Begins(t, s),
         NEW d \in Decodings, NEW r \in Decodings, r.data = d.data, r.reply = d.reply,
         NEW e, UpTo(s, e), NoItemAt(t, e), Stands(t, e, r)
  PROVE  PutsOut(s, t, d, r)
<1>1. UpTo(t, e) /\ Items(t) = Items(s)
  BY ItemStaysOpen
<1>2. Follows(t, r)
  <2>1. e \in 1..(Len(t) + 1)
    BY <1>1 DEF UpTo
  <2> QED
    BY <1>1, <2>1 DEF Follows
<1>3. DataIn(t) = DataIn(s) /\ AnswersTo(t) = AnswersTo(s)
  BY <1>1, Zenon DEF DataIn, AnswersTo
<1>4. PICK none \in Seq(Byte) : none = <<>>
  BY EmptySeq
<1>5. DataIn(s) \in Seq(Byte) /\ AnswersTo(s) \in Seq(Byte) /\ d.data \in Seq(Byte) /\ d.reply \in Seq(Byte)
  BY StreamMeaningTyped DEF Decodings
<1>6. /\ d.data \o none = d.data /\ d.reply \o none = d.reply
      /\ DataIn(s) \o none = DataIn(s) /\ AnswersTo(s) \o none = AnswersTo(s)
  BY <1>4, <1>5, ConcatEmptySeq
<1> QED
  BY <1>2, <1>3, <1>4, <1>6, AddsNothing, Zenon DEF PutsOut

LEMMA PutsOutAnItem ==
  ASSUME NEW s \in Seq(Byte), NEW t \in Seq(Byte), Begins(t, s),
         NEW d \in Decodings, NEW r \in Decodings, r.state = "data",
         NEW e, UpTo(s, e), e <= Len(t), ItemLength(t, e) = Len(t) + 1 - e,
         NEW x, x = SubSeq(t, e, Len(t)),
         r.data = d.data \o Data(x), r.reply = d.reply \o Due(x)
  PROVE  PutsOut(s, t, d, r)
<1>1. Whole(t) /\ Items(t) = Append(Items(s), x) /\ x \in Seq(Byte)
  BY ItemEnds
<1>2. DataIn(t) = DataIn(s) \o Data(x) /\ AnswersTo(t) = AnswersTo(s) \o Due(x)
  BY <1>1, ItemAdds
<1>3. Follows(t, r)
  <2>1. Len(t) + 1 \in 1..(Len(t) + 1)
    BY LenProperties
  <2>2. Stands(t, Len(t) + 1, r)
    BY DEF Stands
  <2> QED
    BY <1>1, <2>1, <2>2 DEF Follows, Whole
<1>4. Data(x) \in Seq(Byte) /\ Due(x) \in Seq(Byte) /\ Neutral(Due(x))
  BY <1>1, MeaningTyped, DueIsNeutral
<1> QED
  BY <1>2, <1>3, <1>4, Zenon DEF PutsOut

\* An unfinished subnegotiation has no end yet.
LEMMA OpenSub ==
  ASSUME NEW s \in Seq(Byte), NEW e \in 1..Len(s), e < Len(s), s[e] = IAC, s[e + 1] = SB
  PROVE  NoItemAt(s, e) <=> NoEnd(s, e)
<1>1. ItemLength(s, e) = IF EndsOfSub(s, e) = {} THEN 0 ELSE Min(EndsOfSub(s, e)) + 2 - e
  BY ItemLengthCases
<1>2. EndsOfSub(s, e) # {} => Min(EndsOfSub(s, e)) + 2 - e # 0
  <2>1. SUFFICES ASSUME EndsOfSub(s, e) # {}
                 PROVE  Min(EndsOfSub(s, e)) + 2 - e # 0
    OBVIOUS
  <2>2. Min(EndsOfSub(s, e)) \in (e + 2)..(Len(s) - 1)
    BY <2>1, FirstEnd
  <2>3. PICK m : m = Min(EndsOfSub(s, e)) /\ m \in (e + 2)..(Len(s) - 1)
    BY <2>2
  <2>4. m + 2 - e # 0
    BY <2>3, LenProperties
  <2> QED
    BY <2>3, <2>4
<1>3. e <= Len(s)
  BY LenProperties
<1> QED
  BY <1>1, <1>2, <1>3 DEF NoItemAt, NoEnd

\* Every byte is put out as it comes to mean something.
LEMMA ByteFollows ==
  ASSUME NEW s \in Seq(Byte), NEW b \in Byte, NEW t \in Seq(Byte), t = Append(s, b),
         NEW d \in Decodings, Follows(s, d), NEW r, r = DecodeByte(d, b)
  PROVE  PutsOut(s, t, d, r)
<1>1. PICK n \in Nat : n = Len(s) /\ Len(t) = n + 1
  BY LenProperties, AppendProperties
<1>2. (\A j \in 1..n : t[j] = s[j]) /\ t[n + 1] = b
  BY <1>1, AppendProperties
<1>3. Begins(t, s)
  BY <1>1, <1>2 DEF Begins
<1>4. PICK e \in 1..(n + 1) : UpTo(s, e) /\ Stands(s, e, d)
  BY <1>1 DEF Follows
<1>5. r \in Decodings
  BY DecodeByteTyped
<1>6. e \in 1..Len(t) /\ e <= Len(t) /\ n + 1 \in 1..Len(t)
  BY <1>1, <1>4
<1>7. /\ d.state \in DecoderStates /\ d.data \in Seq(Byte) /\ d.reply \in Seq(Byte)
      /\ d.command \in Negotiations
  BY DEF Decodings
<1>8. ASSUME NoItemAt(t, e), Stands(t, e, r), r.data = d.data, r.reply = d.reply
      PROVE  PutsOut(s, t, d, r)
  BY <1>3, <1>4, <1>5, <1>8, PutsOutNothing
<1>9. PICK x : x = SubSeq(t, e, Len(t))
  OBVIOUS
<1>10. /\ x \in Seq(Byte) /\ Len(x) = (n + 1) - e + 1
       /\ \A j \in 1..((n + 1) - e + 1) : x[j] = t[e + j - 1]
  <2>1. \A j \in e..(n + 1) : t[j] \in Byte
    <3>1. \A j \in e..(n + 1) : j \in 1..Len(t)
      BY <1>1, <1>4
    <3> QED
      BY <3>1, ElementOfSeq
  <2> QED
    BY <1>1, <1>4, <1>9, <2>1, SubSeqProperties
<1>19. /\ Len(x) = 1 => Data(x) = <<x[1]>>
       /\ Len(x) = 2 /\ x[1] = IAC /\ x[2] = IAC => Data(x) = <<IAC>>
       /\ Len(x) # 1 /\ x[2] # IAC => Data(x) = <<>>
       /\ Len(x) # 3 => Due(x) = <<>>
       /\ Len(x) = 3 /\ x[1] = IAC /\ x[2] \in Negotiations => Due(x) = Answer(x[2], x[3])
  BY <1>10, ItemMeans, Zenon
<1>11. ASSUME ItemLength(t, e) = (n + 1) + 1 - e, r.state = "data",
              r.data = d.data \o Data(x), r.reply = d.reply \o Due(x)
       PROVE  PutsOut(s, t, d, r)
  <2>1. ItemLength(t, e) = Len(t) + 1 - e
    BY <1>1, <1>11
  <2> QED
    BY <1>3, <1>4, <1>5, <1>6, <1>9, <1>11, <2>1, PutsOutAnItem
<1>12. d.data \o <<>> = d.data /\ d.reply \o <<>> = d.reply
  BY <1>7, ConcatEmptySeq
<1>13. CASE d.state = "data"
  <2>1. e = n + 1 /\ t[e] = b /\ e = Len(t)
    BY <1>1, <1>2, <1>4, <1>13 DEF Stands
  <2>2. CASE b = IAC
    <3>1. r = [d EXCEPT !.state = "iac"]
      BY <1>13, <2>2 DEF DecodeByte
    <3>2. r.state = "iac" /\ r.data = d.data /\ r.reply = d.reply
      BY <3>1 DEF Decodings
    <3>3. ItemLength(t, e) = 0
      BY <1>6, <2>1, <2>2, ItemLengthCases
    <3> QED
      BY <1>8, <2>1, <2>2, <3>2, <3>3 DEF NoItemAt, Stands
  <2>3. CASE b # IAC
    <3>1. r = [d EXCEPT !.data = Append(@, b)]
      BY <1>13, <2>3 DEF DecodeByte
    <3>2. r.state = "data" /\ r.data = Append(d.data, b) /\ r.reply = d.reply
      BY <1>13, <3>1 DEF Decodings
    <3>3. ItemLength(t, e) = 1
      BY <1>6, <2>1, <2>3, ItemLengthCases
    <3>4. ItemLength(t, e) = (n + 1) + 1 - e
      BY <2>1, <3>3
    <3>5. Len(x) = 1 /\ x[1] = b
      BY <1>10, <2>1
    <3>6. Data(x) = <<b>> /\ Due(x) = <<>>
      BY <1>19, <3>5
    <3>7. Append(d.data, b) = d.data \o <<b>>
      BY <1>7, AppendIsConcat
    <3> QED
      BY <1>11, <1>12, <3>2, <3>4, <3>6, <3>7
  <2> QED
    BY <2>2, <2>3
<1>14. CASE d.state = "iac"
  <2>1. e = n /\ e \in 1..n /\ t[e] = IAC /\ e < Len(t) /\ t[e + 1] = b /\ e + 1 = Len(t)
    <3>1. e = n /\ s[e] = IAC
      BY <1>1, <1>4, <1>14 DEF Stands
    <3>2. e \in 1..n
      BY <1>4, <3>1
    <3> QED
      BY <1>1, <1>2, <3>1, <3>2
  <2>2. Len(x) = 2 /\ x[1] = IAC /\ x[2] = b
    <3>1. Len(x) = 2 /\ 1 \in 1..((n + 1) - e + 1) /\ 2 \in 1..((n + 1) - e + 1)
      BY <1>10, <2>1
    <3>2. x[1] = t[e + 1 - 1] /\ x[2] = t[e + 2 - 1]
      BY <1>10, <3>1, Zenon
    <3>3. e + 1 - 1 = e /\ e + 2 - 1 = e + 1
      BY <1>4
    <3> QED
      BY <2>1, <3>1, <3>2, <3>3
  <2>3. CASE b = IAC
    <3>1. r = [d EXCEPT !.state = "data", !.data = Append(@, IAC)]
      BY <1>14, <2>3, Commands DEF DecodeByte
    <3>2. r.state = "data" /\ r.data = Append(d.data, IAC) /\ r.reply = d.reply
      BY <3>1 DEF Decodings
    <3>3. ItemLength(t, e) = 2
      BY <1>6, <2>1, <2>3, ItemLengthCases, Commands
    <3>4. ItemLength(t, e) = (n + 1) + 1 - e
      BY <2>1, <3>3
    <3>5. Data(x) = <<IAC>> /\ Due(x) = <<>>
      BY <1>19, <2>2, <2>3
    <3>6. Append(d.data, IAC) = d.data \o <<IAC>>
      BY <1>7, Codes, AppendIsConcat
    <3> QED
      BY <1>11, <1>12, <3>2, <3>4, <3>5, <3>6
  <2>4. CASE b \in Negotiations
    <3>1. r = [d EXCEPT !.state = "option", !.command = b]
      BY <1>14, <2>4, Commands DEF DecodeByte
    <3>2. r.state = "option" /\ r.command = b /\ r.data = d.data /\ r.reply = d.reply
      BY <3>1 DEF Decodings
    <3>3. ItemLength(t, e) = IF e + 2 <= Len(t) THEN 3 ELSE 0
      BY <1>6, <2>1, <2>4, ItemLengthCases
    <3>4. ItemLength(t, e) = 0
      BY <1>1, <2>1, <3>3
    <3> QED
      BY <1>8, <2>1, <3>2, <3>4 DEF NoItemAt, Stands
  <2>5. CASE b = SB
    <3>1. r = [d EXCEPT !.state = "sub"]
      BY <1>14, <2>5, Commands DEF DecodeByte
    <3>2. r.state = "sub" /\ r.data = d.data /\ r.reply = d.reply
      BY <3>1 DEF Decodings
    <3>3. EndsOfSub(t, e) = {}
      <4>1. (e + 2)..(Len(t) - 1) = {}
        BY <1>1, <2>1
      <4> QED
        BY <4>1 DEF EndsOfSub
    <3>4. NoItemAt(t, e)
      BY <1>6, <2>1, <2>5, <3>3, OpenSub DEF NoEnd
    <3>5. InSub(t, e, 0)
      <4>1. /\ e + 1 \in (e + 1)..Len(t) /\ t[e + 1] # IAC
            /\ (Len(t) - (e + 1)) % 2 = 0
        BY <1>1, <2>1, <2>5, Commands
      <4>2. \A j \in ((e + 1) + 1)..Len(t) : t[j] = IAC
        BY <1>1, <2>1
      <4> QED
        BY <2>1, <2>5, <4>1, <4>2 DEF InSub
    <3> QED
      BY <1>8, <3>2, <3>4, <3>5 DEF Stands
  <2>6. CASE b \notin Negotiations \cup {IAC, SB}
    <3>1. r = [d EXCEPT !.state = "data"]
      BY <1>14, <2>6 DEF DecodeByte
    <3>2. r.state = "data" /\ r.data = d.data /\ r.reply = d.reply
      BY <3>1 DEF Decodings
    <3>3. ItemLength(t, e) = 2
      BY <1>6, <2>1, <2>6, ItemLengthCases
    <3>4. ItemLength(t, e) = (n + 1) + 1 - e
      BY <2>1, <3>3
    <3>5. Data(x) = <<>> /\ Due(x) = <<>>
      BY <1>19, <2>2, <2>6
    <3> QED
      BY <1>11, <1>12, <3>2, <3>4, <3>5
  <2> QED
    BY <2>3, <2>4, <2>5, <2>6
<1>15. CASE d.state = "option"
  <2>1. /\ e + 1 = n /\ e \in 1..n /\ e + 1 \in 1..n /\ e + 2 = n + 1
        /\ t[e] = IAC /\ t[e + 1] = d.command /\ t[e + 2] = b
    <3>1. e + 1 = n /\ s[e] = IAC /\ s[e + 1] = d.command
      BY <1>1, <1>4, <1>15 DEF Stands
    <3>2. e \in 1..n /\ e + 1 \in 1..n
      BY <1>4, <3>1
    <3> QED
      BY <1>1, <1>2, <3>1, <3>2
  <2>2. Len(x) = 3 /\ x[1] = IAC /\ x[2] = d.command /\ x[3] = b
    <3>1. Len(x) = 3 /\ \A j \in 1..3 : j \in 1..((n + 1) - e + 1)
      BY <1>10, <2>1
    <3>2. x[1] = t[e + 1 - 1] /\ x[2] = t[e + 2 - 1] /\ x[3] = t[e + 3 - 1]
      <4>1. 1 \in 1..3 /\ 2 \in 1..3 /\ 3 \in 1..3
        OBVIOUS
      <4> QED
        BY <1>10, <3>1, <4>1, Zenon
    <3>3. e + 1 - 1 = e /\ e + 2 - 1 = e + 1 /\ e + 3 - 1 = e + 2
      BY <1>4
    <3> QED
      BY <2>1, <3>1, <3>2, <3>3
  <2>3. r = [d EXCEPT !.state = "data", !.reply = @ \o Answer(d.command, b)]
    BY <1>15 DEF DecodeByte
  <2>4. r.state = "data" /\ r.data = d.data /\ r.reply = d.reply \o Answer(d.command, b)
    BY <2>3 DEF Decodings
  <2>5. ItemLength(t, e) = (n + 1) + 1 - e
    <3>1. e < Len(t) /\ e + 2 <= Len(t)
      BY <1>1, <2>1
    <3>2. ItemLength(t, e) = 3
      BY <1>6, <1>7, <2>1, <3>1, ItemLengthCases
    <3> QED
      BY <2>1, <3>2
  <2>6. Data(x) = <<>> /\ Due(x) = Answer(d.command, b)
    BY <1>7, <1>19, <2>2, Commands
  <2> QED
    BY <1>11, <1>12, <2>4, <2>5, <2>6
<1>16. ASSUME NEW odd \in {0, 1}, d.state = IF odd = 0 THEN "sub" ELSE "subIac"
       PROVE  PutsOut(s, t, d, r)
  <2>1. InSub(s, e, odd)
    BY <1>4, <1>16 DEF Stands
  <2>2. e \in 1..n /\ e + 1 \in 1..n /\ s[e] = IAC /\ s[e + 1] = SB /\ e < Len(s)
    <3>1. e < n /\ s[e] = IAC /\ s[e + 1] = SB
      BY <1>1, <2>1 DEF InSub
    <3> QED
      BY <1>1, <1>4, <3>1
  <2>3. NoEnd(s, e)
    BY <1>1, <1>4, <2>2, OpenSub DEF UpTo
  <2>4. t[e] = IAC /\ t[e + 1] = SB /\ e < Len(t)
    BY <1>1, <1>2, <2>2
  <2>5. NoItemAt(t, e) <=> NoEnd(t, e)
    BY <1>6, <2>4, OpenSub
  <2>8. e \in 1..Len(s)
    BY <1>1, <2>2
  <2>6. CASE odd = 1 /\ b = SE
    <3>1. r = [d EXCEPT !.state = "data"]
      BY <1>16, <2>6 DEF DecodeByte
    <3>2. r.state = "data" /\ r.data = d.data /\ r.reply = d.reply
      BY <3>1 DEF Decodings
    <3>3. EndsOfSub(t, e) = {n}
      <4>1. EndsAt(t, e, Len(s))
        BY <1>16, <2>1, <2>3, <2>6, <2>8, SubEnds, ZenonT(60)
      <4> QED
        BY <1>1, <4>1 DEF EndsAt
    <3>4. ItemLength(t, e) = (n + 1) + 1 - e /\ n \in (e + 2)..n
      <4>1. Min(EndsOfSub(t, e)) \in EndsOfSub(t, e) /\ Min(EndsOfSub(t, e)) \in (e + 2)..(Len(t) - 1)
        BY <1>6, <3>3, FirstEnd
      <4>2. Min(EndsOfSub(t, e)) = n
        BY <3>3, <4>1
      <4>3. ItemLength(t, e) = IF EndsOfSub(t, e) = {} THEN 0 ELSE Min(EndsOfSub(t, e)) + 2 - e
        BY <1>6, <2>4, ItemLengthCases
      <4>4. ItemLength(t, e) = n + 2 - e
        BY <3>3, <4>2, <4>3
      <4> QED
        BY <1>1, <4>1, <4>2, <4>4
    <3>5. Len(x) # 1 /\ Len(x) # 3 /\ x[2] = SB
      <4>1. Len(x) # 1 /\ Len(x) # 3 /\ 2 \in 1..((n + 1) - e + 1) /\ e + 2 - 1 = e + 1
        BY <1>4, <1>10, <3>4
      <4> QED
        BY <1>10, <2>4, <4>1
    <3>6. Data(x) = <<>> /\ Due(x) = <<>>
      BY <1>19, <3>5, Commands
    <3> QED
      BY <1>11, <1>12, <3>2, <3>4, <3>6
  <2>7. CASE odd = 0 \/ b # SE
    <3>1. NoEnd(t, e)
      BY <1>16, <2>1, <2>3, <2>7, <2>8, SubEnds, ZenonT(60)
    <3>2. InSub(t, e, IF b = IAC THEN 1 - odd ELSE 0)
      BY <1>16, <2>1, <2>8, SubGoesOn, ZenonT(60)
    <3>3. /\ r.data = d.data /\ r.reply = d.reply
          /\ r.state = IF odd = 0 /\ b = IAC THEN "subIac" ELSE "sub"
      <4>1. CASE odd = 0
        <5>1. r = [d EXCEPT !.state = IF b = IAC THEN "subIac" ELSE "sub"]
          BY <1>16, <4>1 DEF DecodeByte
        <5> QED
          BY <4>1, <5>1 DEF Decodings
      <4>2. CASE odd = 1
        <5>1. r = [d EXCEPT !.state = "sub"]
          BY <1>16, <2>7, <4>2 DEF DecodeByte
        <5> QED
          BY <4>2, <5>1 DEF Decodings
      <4> QED
        BY <4>1, <4>2
    <3>4. Stands(t, e, r)
      BY <1>16, <3>2, <3>3 DEF Stands
    <3> QED
      BY <1>8, <2>5, <3>1, <3>3, <3>4
  <2> QED
    BY <2>6, <2>7
<1>17. CASE d.state = "sub"
  BY <1>16, <1>17
<1>18. CASE d.state = "subIac"
  BY <1>16, <1>18
<1> QED
  BY <1>7, <1>13, <1>14, <1>15, <1>17, <1>18 DEF DecoderStates

\* A stream that goes on by one more byte of an input.
LEMMA OneMore ==
  ASSUME NEW s \in Seq(Byte), NEW input \in Seq(Byte), NEW i \in 0..(Len(input) - 1)
  PROVE  /\ s \o SubSeq(input, 1, i) \in Seq(Byte)
         /\ s \o SubSeq(input, 1, i + 1) = Append(s \o SubSeq(input, 1, i), input[i + 1])
<1>1. PICK n \in Nat : n = Len(input) /\ i \in 0..(n - 1) /\ i + 1 \in 1..n
  BY LenProperties
<1>2. \A j \in 1..n : input[j] \in Byte
  BY <1>1, ElementOfSeq
<1>3. PICK u, v : u = SubSeq(input, 1, i) /\ v = <<input[i + 1]>>
  OBVIOUS
<1>4. u \in Seq(Byte) /\ v \in Seq(Byte) /\ input[i + 1] \in Byte
  <2>1. \A j \in 1..i : input[j] \in Byte
    BY <1>1, <1>2
  <2>2. u \in Seq(Byte)
    BY <1>1, <1>3, <2>1, SubSeqProperties
  <2>3. input[i + 1] \in Byte
    BY <1>1, <1>2
  <2> QED
    BY <1>3, <2>2, <2>3
<1>5. SubSeq(input, 1, i + 1) = u \o v
  <2>1. 1 \in 1..Len(input) /\ i + 1 \in 1..Len(input) /\ (i + 1) - 1 = i
    BY <1>1
  <2>2. SubSeq(input, 1, i + 1) = SubSeq(input, 1, (i + 1) - 1) \o <<input[i + 1]>>
    BY <2>1, SubSeqRecursiveSecond
  <2> QED
    BY <1>3, <2>1, <2>2
<1>6. PICK w : w = s \o u
  OBVIOUS
<1>7. w \in Seq(Byte)
  BY <1>4, <1>6, ConcatProperties
<1>8. PICK z : z = u \o v
  OBVIOUS
<1>9. Joins(s \o z, w, v)
  <2>1. Joins(w, s, u) /\ Joins(z, u, v) /\ Joins(s \o z, s, z)
    BY <1>6, <1>8 DEF Joins
  <2> QED
    BY <1>4, <2>1, JoinsLeft, Zenon
<1>10. Append(w, input[i + 1]) = w \o v
  BY <1>3, <1>4, <1>7, AppendIsConcat
<1> QED
  BY <1>3, <1>5, <1>6, <1>7, <1>8, <1>9, <1>10, Zenon DEF Joins

\* What a decoder has put out of a stream that went on from s to t.
Heard(s, t, d) ==
  /\ Follows(t, d)
  /\ DataIn(t) = DataIn(s) \o d.data
  /\ AnswersTo(t) = AnswersTo(s) \o d.reply
  /\ Neutral(d.reply)

LEMMA HeardMore ==
  ASSUME NEW s \in Seq(Byte), NEW t \in Seq(Byte), NEW u \in Seq(Byte), NEW d \in Decodings, NEW r,
         Heard(s, t, d), PutsOut(t, u, d, r)
  PROVE  Heard(s, u, r)
<1>1. PICK x \in Seq(Byte) : r.data = d.data \o x /\ DataIn(u) = DataIn(t) \o x
  BY DEF PutsOut
<1>2. PICK y \in Seq(Byte) : r.reply = d.reply \o y /\ AnswersTo(u) = AnswersTo(t) \o y /\ Neutral(y)
  BY DEF PutsOut
<1>3. DataIn(s) \in Seq(Byte) /\ AnswersTo(s) \in Seq(Byte) /\ d.data \in Seq(Byte) /\ d.reply \in Seq(Byte)
  BY StreamMeaningTyped DEF Decodings
<1>4. Joins(DataIn(u), DataIn(s), r.data)
  <2>1. Joins(DataIn(t), DataIn(s), d.data) /\ Joins(r.data, d.data, x) /\ Joins(DataIn(u), DataIn(t), x)
    BY <1>1, Zenon DEF Heard, Joins
  <2> QED
    BY <1>3, <2>1, JoinsRight, SMTT(60)
<1>5. Joins(AnswersTo(u), AnswersTo(s), r.reply)
  <2>1. /\ Joins(AnswersTo(t), AnswersTo(s), d.reply) /\ Joins(r.reply, d.reply, y)
        /\ Joins(AnswersTo(u), AnswersTo(t), y)
    BY <1>2, Zenon DEF Heard, Joins
  <2> QED
    BY <1>3, <2>1, JoinsRight, SMTT(60)
<1>6. Neutral(r.reply)
  <2>1. Neutral(d.reply)
    BY DEF Heard
  <2>2. Neutral(d.reply \o y)
    BY <1>2, <1>3, <2>1, NeutralBoth
  <2> QED
    BY <1>2, <2>2, Zenon
<1> QED
  BY <1>4, <1>5, <1>6, Zenon DEF Heard, PutsOut, Joins

\* Whatever the pieces: a decoder that follows a stream follows it on, and puts
\* out what the stream comes to mean.
LEMMA DecodeFollows ==
  ASSUME NEW s \in Seq(Byte), NEW dec \in Decoders, Follows(s, dec), NEW input \in Seq(Byte)
  PROVE  Heard(s, s \o input, Decode(dec, input))
<1>1. PICK n \in Nat : n = Len(input)
  BY LenProperties
<1>2. PICK x \in Decodings : \E f :
        /\ x = [state |-> dec.state, command |-> dec.command, data |-> <<>>, reply |-> <<>>]
        /\ DecodesFrom(f, x, input, n)
        /\ Decode(dec, input) = f[n]
  BY <1>1, DecodeRuns, Zenon
<1>9. PICK f : DecodesFrom(f, x, input, n) /\ Decode(dec, input) = f[n]
  BY <1>2
<1>3. \A i \in 0..n : f[i] = IF i = 0 THEN x ELSE DecodeByte(f[i - 1], input[i])
  BY <1>9, Zenon DEF DecodesFrom
<1> DEFINE S == {i \in Nat : i \in 0..n => f[i] \in Decodings /\ Heard(s, s \o SubSeq(input, 1, i), f[i])}
<1>4. 0 \in S
  <2>1. f[0] = x
    BY <1>3
  <2>2. SubSeq(input, 1, 0) = <<>>
    BY SubSeqEmpty
  <2>3. s \o <<>> = s
    BY ConcatEmptySeq
  <2>4. Follows(s, x)
    BY <1>2 DEF Follows, Stands
  <2>5. x.data = <<>> /\ x.reply = <<>>
    BY <1>2
  <2>6. DataIn(s) \o <<>> = DataIn(s) /\ AnswersTo(s) \o <<>> = AnswersTo(s)
    BY StreamMeaningTyped, ConcatEmptySeq
  <2>7. Heard(s, s, x)
    BY <2>4, <2>5, <2>6, AddsNothing DEF Heard
  <2> QED
    BY <2>1, <2>2, <2>3, <2>7
<1>5. ASSUME NEW i \in Nat, i \in S
      PROVE  i + 1 \in S
  <2> SUFFICES ASSUME i + 1 \in 0..n
               PROVE  f[i + 1] \in Decodings /\ Heard(s, s \o SubSeq(input, 1, i + 1), f[i + 1])
    OBVIOUS
  <2>1. i \in 0..(Len(input) - 1) /\ i \in 0..n /\ i + 1 \in 1..Len(input)
    BY <1>1
  <2>2. f[i] \in Decodings /\ Heard(s, s \o SubSeq(input, 1, i), f[i])
    BY <1>5, <2>1
  <2>3. f[i + 1] = DecodeByte(f[i], input[i + 1])
    <3>1. i + 1 # 0 /\ (i + 1) - 1 = i
      OBVIOUS
    <3> QED
      BY <1>3, <3>1
  <2>4. PICK b \in Byte : b = input[i + 1]
    BY <2>1, ElementOfSeq
  <2>5. PICK t, u : t = s \o SubSeq(input, 1, i) /\ u = s \o SubSeq(input, 1, i + 1)
    OBVIOUS
  <2>6. t \in Seq(Byte) /\ u = Append(t, b)
    BY <2>1, <2>4, <2>5, OneMore, Zenon
  <2>7. u \in Seq(Byte)
    BY <2>6, AppendProperties
  <2>8. PICK d \in Decodings : d = f[i]
    BY <2>2
  <2>9. PICK r : r = f[i + 1]
    OBVIOUS
  <2>10. r = DecodeByte(d, b)
    BY <2>3, <2>4, <2>8, <2>9, Zenon
  <2>11. Heard(s, t, d)
    BY <2>2, <2>5, <2>8, Zenon
  <2>12. Follows(t, d)
    BY <2>11 DEF Heard
  <2>13. PutsOut(t, u, d, r)
    BY <2>6, <2>7, <2>10, <2>12, ByteFollows, Zenon
  <2>14. Heard(s, u, r)
    BY <2>6, <2>7, <2>11, <2>13, HeardMore, Zenon
  <2>15. r \in Decodings
    BY <2>10, DecodeByteTyped, Zenon
  <2> QED
    BY <2>5, <2>9, <2>14, <2>15, Zenon
<1>6. Nat \subseteq S
  <2> HIDE DEF S
  <2> QED
    BY <1>4, <1>5, NatSetInduction
<1>7. Heard(s, s \o SubSeq(input, 1, n), f[n])
  BY <1>6
<1>8. SubSeq(input, 1, n) = input
  BY <1>1, SubSeqFull
<1> QED
  BY <1>9, <1>7, <1>8, Zenon

-----------------------------------------------------------------------------
(* The encoder: what it makes of data is heard as that data.               *)

Escaped(b) == IF b = IAC THEN <<IAC, IAC>> ELSE <<b>>

LEMMA EncodeAppend ==
  ASSUME NEW bytes \in Seq(Byte), NEW b \in Byte, NEW more, more = Append(bytes, b)
  PROVE  Encode(more) = Encode(bytes) \o Escaped(b)
<1>1. PICK g : g = [y \in Byte |-> Escaped(y)]
  OBVIOUS
<1>2. \A y \in Byte : Escaped(y) \in Seq(Byte)
  BY Codes DEF Escaped
<1>3. g \in [Byte -> Seq(Byte)] /\ \A y \in Byte : g[y] = Escaped(y)
  BY <1>1, <1>2
<1>4. Mapped(g, more) = Mapped(g, bytes) \o g[b]
  BY <1>3, MapAppend, Zenon
<1>5. \A s \in Seq(Byte) : Encode(s) = Mapped(g, s)
  <2>1. TAKE s \in Seq(Byte)
  <2>2. \A i \in DOMAIN s : s[i] \in Byte
    BY ElementOfSeq, LenProperties
  <2>3. [i \in DOMAIN s |-> IF s[i] = IAC THEN <<IAC, IAC>> ELSE <<s[i]>>] = [i \in DOMAIN s |-> g[s[i]]]
    BY <1>3, <2>2 DEF Escaped
  <2> QED
    BY <2>3, Zenon DEF Encode, Mapped
<1>6. more \in Seq(Byte)
  BY AppendProperties
<1> QED
  BY <1>3, <1>4, <1>5, <1>6, Zenon

LEMMA AddsEscaped ==
  ASSUME NEW b \in Byte
  PROVE  Adds(Escaped(b), <<b>>, <<>>) /\ Escaped(b) \in Seq(Byte)
<1>1. CASE b = IAC
  BY <1>1, AddsAPair, Codes DEF Escaped
<1>2. CASE b # IAC
  <2>1. PICK x : x = <<b>>
    OBVIOUS
  <2>2. x \in Seq(Byte) /\ Len(x) = 1 /\ x[1] # IAC
    BY <1>2, <2>1
  <2>3. Adds(x, x, <<>>)
    BY <2>2, AddsAByte, Zenon
  <2> QED
    BY <1>2, <2>1, <2>2, <2>3 DEF Escaped
<1> QED
  BY <1>1, <1>2

\* The encoder adds the data and nothing else.
LEMMA EncodeAdds ==
  ASSUME NEW bytes \in Seq(Byte)
  PROVE  Adds(Encode(bytes), bytes, <<>>)
<1>1. PICK n \in Nat : n = Len(bytes)
  BY LenProperties
<1>2. PICK none \in Seq(Byte) : none = <<>>
  BY EmptySeq
<1> DEFINE S == {i \in Nat : i \in 0..n =>
                    /\ SubSeq(bytes, 1, i) \in Seq(Byte)
                    /\ Encode(SubSeq(bytes, 1, i)) \in Seq(Byte)
                    /\ Adds(Encode(SubSeq(bytes, 1, i)), SubSeq(bytes, 1, i), none)}
<1>3. 0 \in S
  <2>1. SubSeq(bytes, 1, 0) = none
    BY <1>2, SubSeqEmpty
  <2>2. Encode(none) = none
    <3>1. [i \in DOMAIN none |-> IF none[i] = IAC THEN <<IAC, IAC>> ELSE <<none[i]>>] = <<>>
      BY <1>2
    <3> QED
      BY <1>2, <3>1, FlattenEmpty, Zenon DEF Encode
  <2>3. Adds(none, none, none)
    BY <1>2, AddsNothing, Zenon DEF Neutral
  <2> QED
    BY <1>2, <2>1, <2>2, <2>3
<1>4. ASSUME NEW i \in Nat, i \in S
      PROVE  i + 1 \in S
  <2> SUFFICES ASSUME i + 1 \in 0..n
               PROVE  /\ SubSeq(bytes, 1, i + 1) \in Seq(Byte)
                      /\ Encode(SubSeq(bytes, 1, i + 1)) \in Seq(Byte)
                      /\ Adds(Encode(SubSeq(bytes, 1, i + 1)), SubSeq(bytes, 1, i + 1), none)
    OBVIOUS
  <2>1. i \in 0..(Len(bytes) - 1) /\ i \in 0..n /\ i + 1 \in 1..Len(bytes)
    BY <1>1
  <2>2. PICK b \in Byte : b = bytes[i + 1]
    BY <2>1, ElementOfSeq
  <2>3. PICK t, u : t = SubSeq(bytes, 1, i) /\ u = SubSeq(bytes, 1, i + 1)
    OBVIOUS
  <2>4. t \in Seq(Byte) /\ Encode(t) \in Seq(Byte) /\ Adds(Encode(t), t, none)
    BY <1>4, <2>1, <2>3
  <2>5. u = Append(t, b)
    <3>1. none \o t = t /\ none \o u = u
      <4>1. u \in Seq(Byte)
        <5>1. \A j \in 1..(i + 1) : bytes[j] \in Byte
          BY <2>1, ElementOfSeq
        <5> QED
          BY <2>3, <5>1, SubSeqProperties
      <4> QED
        BY <1>2, <2>4, <4>1, ConcatEmptySeq
    <3>2. none \o u = Append(none \o t, b)
      BY <2>1, <2>2, <2>3, OneMore, Zenon
    <3> QED
      BY <3>1, <3>2
  <2>6. Encode(u) = Encode(t) \o Escaped(b)
    BY <2>4, <2>5, EncodeAppend, Zenon
  <2>7. <<b>> \in Seq(Byte) /\ Adds(Escaped(b), <<b>>, none) /\ Escaped(b) \in Seq(Byte)
    BY <1>2, AddsEscaped
  <2>8. Adds(Encode(t) \o Escaped(b), t \o <<b>>, none \o none)
    BY <2>4, <2>7, AddsBoth
  <2>9. u = t \o <<b>> /\ none \o none = none
    BY <1>2, <2>4, <2>5, AppendIsConcat, ConcatEmptySeq
  <2>10. u \in Seq(Byte) /\ Encode(u) \in Seq(Byte)
    BY <2>4, <2>5, <2>6, <2>7, AppendProperties, ConcatProperties
  <2> QED
    BY <2>3, <2>6, <2>8, <2>9, <2>10, Zenon
<1>5. Nat \subseteq S
  <2> HIDE DEF S
  <2> QED
    BY <1>3, <1>4, NatSetInduction
<1>6. Adds(Encode(SubSeq(bytes, 1, n)), SubSeq(bytes, 1, n), none)
  BY <1>5
<1>7. SubSeq(bytes, 1, n) = bytes
  BY <1>1, SubSeqFull
<1> QED
  BY <1>2, <1>6, <1>7, Zenon

\* The greeting is a row of negotiations.
LEMMA GreetingIsNeutral == Neutral(Greeting) /\ Greeting \in Seq(Byte)
<1>1. PICK g : g = Greeting
  OBVIOUS
<1>2. g \in Seq(Byte) /\ Len(g) = 21
  BY <1>1, Codes DEF Greeting, Negotiations
<1>3. \A j \in {1, 4, 7, 10, 13, 16, 19} : g[j] = IAC /\ g[j + 1] \in Negotiations
  BY <1>1 DEF Greeting, Negotiations
<1> DEFINE S == {k \in Nat : k \in 0..7 => SubSeq(g, 1, 3 * k) \in Seq(Byte) /\ Neutral(SubSeq(g, 1, 3 * k))}
<1>4. 0 \in S
  <2>1. SubSeq(g, 1, 3 * 0) = <<>>
    BY SubSeqEmpty
  <2> QED
    BY <2>1, AddsNothing, EmptySeq
<1>5. ASSUME NEW k \in Nat, k \in S
      PROVE  k + 1 \in S
  <2> SUFFICES ASSUME k + 1 \in 0..7
               PROVE  SubSeq(g, 1, 3 * (k + 1)) \in Seq(Byte) /\ Neutral(SubSeq(g, 1, 3 * (k + 1)))
    OBVIOUS
  <2>1. PICK a \in 0..18 : a = 3 * k /\ a + 3 = 3 * (k + 1) /\ a + 1 \in {1, 4, 7, 10, 13, 16, 19}
    OBVIOUS
  <2>2. PICK x, y : x = SubSeq(g, 1, a) /\ y = SubSeq(g, a + 1, a + 3)
    OBVIOUS
  <2>3. x \in Seq(Byte) /\ Neutral(x)
    BY <1>5, <2>1, <2>2
  <2>4. /\ y \in Seq(Byte) /\ Len(y) = 3
        /\ y[1] = IAC /\ y[2] \in Negotiations
    <3>1. \A j \in (a + 1)..(a + 3) : g[j] \in Byte
      <4>1. \A j \in (a + 1)..(a + 3) : j \in 1..Len(g)
        BY <1>2, <2>1
      <4> QED
        BY <1>2, <4>1, ElementOfSeq
    <3>2. /\ y \in Seq(Byte)
          /\ Len(y) = IF a + 1 <= a + 3 THEN (a + 3) - (a + 1) + 1 ELSE 0
          /\ \A j \in 1..((a + 3) - (a + 1) + 1) : y[j] = g[(a + 1) + j - 1]
      BY <2>1, <2>2, <3>1, SubSeqProperties
    <3>3. Len(y) = 3 /\ (a + 3) - (a + 1) + 1 = 3
      BY <2>1, <3>2
    <3>4. 1 \in 1..3 /\ 2 \in 1..3
      OBVIOUS
    <3>5. y[1] = g[(a + 1) + 1 - 1] /\ y[2] = g[(a + 1) + 2 - 1]
      BY <3>2, <3>3, <3>4
    <3>6. (a + 1) + 1 - 1 = a + 1 /\ (a + 1) + 2 - 1 = (a + 1) + 1
      BY <2>1
    <3> QED
      BY <1>3, <2>1, <3>2, <3>3, <3>5, <3>6
  <2>5. Neutral(y)
    BY <2>4, NegotiationIsNeutral
  <2>6. x \o y = SubSeq(g, 1, a + 3)
    <3>1. 1 \in 1..(Len(g) + 1) /\ a \in (1 - 1)..Len(g) /\ a + 3 \in a..Len(g)
      BY <1>2, <2>1
    <3> QED
      BY <1>2, <2>2, <3>1, ConcatAdjacentSubSeq
  <2>7. x \o y \in Seq(Byte) /\ Neutral(x \o y)
    BY <2>3, <2>4, <2>5, NeutralBoth, ConcatProperties
  <2> QED
    BY <2>1, <2>6, <2>7
<1>6. Nat \subseteq S
  <2> HIDE DEF S
  <2> QED
    BY <1>4, <1>5, NatSetInduction
<1>7. 7 \in S
  <2> HIDE DEF S
  <2> QED
    BY <1>6
<1>8. SubSeq(g, 1, 21) = g
  BY <1>2, SubSeqFull
<1>9. Neutral(SubSeq(g, 1, 3 * 7)) /\ 3 * 7 = 21
  BY <1>7
<1> QED
  BY <1>1, <1>2, <1>8, <1>9

-----------------------------------------------------------------------------
(* What passes between the gateway and a Telnet client.                    *)

\* s was read, dec is the decoder, answer what is to be answered, sent what was
\* written to the connection, with the first n pieces of output in it.
TalkIs(s, dec, answer, place, sent, output, n) ==
  /\ Follows(s, dec)
  /\ place # "replying" => answer = <<>>
  /\ Neutral(answer)
  /\ Whole(sent)
  /\ DataIn(sent) = FlattenSeq(SubSeq(output, 1, n))
  /\ IF place = "left" THEN IsPrefix(CommandsIn(sent) \o answer, Greeting \o AnswersTo(s))
                       ELSE CommandsIn(sent) \o answer = Greeting \o AnswersTo(s)

LEMMA TalkBegins ==
  ASSUME NEW output \in Seq(Seq(Byte))
  PROVE  TalkIs(<<>>, NewDecoder, <<>>, "reading", Greeting, output, 0)
<1>1. PICK s \in Seq(Byte) : s = <<>> /\ Len(s) = 0
  BY EmptySeq
<1>2. Whole(s) /\ DataIn(s) = s /\ CommandsIn(s) = s /\ AnswersTo(s) = s
  BY <1>1, NothingSaid, NothingMeans, Zenon
<1>3. Follows(s, NewDecoder)
  <2>1. 1 \in 1..(Len(s) + 1) /\ UpTo(s, 1)
    BY <1>1, <1>2 DEF Whole
  <2>2. Stands(s, 1, NewDecoder)
    BY <1>1 DEF Stands, NewDecoder
  <2> QED
    BY <2>1, <2>2 DEF Follows
<1>4. PICK g \in Seq(Byte) : g = Greeting /\ Neutral(g)
  BY GreetingIsNeutral
<1>5. s \o g = g /\ s \o s = s /\ g \o s = g
  BY <1>1, <1>4, ConcatEmptySeq
<1>6. /\ Whole(s \o g)
      /\ Joins(DataIn(s \o g), DataIn(s), s)
      /\ Joins(CommandsIn(s \o g), CommandsIn(s), g)
  BY <1>1, <1>2, <1>4, Zenon DEF Neutral, Adds
<1>7. Whole(g) /\ DataIn(g) = s /\ CommandsIn(g) = g
  BY <1>2, <1>5, <1>6, Zenon DEF Joins
<1>8. FlattenSeq(SubSeq(output, 1, 0)) = s
  <2>1. SubSeq(output, 1, 0) = <<>>
    BY SubSeqEmpty
  <2> QED
    BY <1>1, <2>1, FlattenEmpty, Zenon
<1>9. Neutral(s)
  BY <1>1, AddsNothing, Zenon
<1>10. CommandsIn(g) \o s = Greeting \o AnswersTo(s)
  BY <1>2, <1>4, <1>5, <1>7, Zenon
<1>11. TalkIs(s, NewDecoder, s, "reading", g, output, 0)
  BY <1>1, <1>3, <1>7, <1>8, <1>9, <1>10 DEF TalkIs
<1> QED
  BY <1>1, <1>4, <1>11, Zenon

\* A read is decoded, and its answers are to be written.
LEMMA TalkReads ==
  ASSUME NEW s \in Seq(Byte), NEW dec \in Decoders, NEW answer, NEW sent \in Seq(Byte), NEW output, NEW n,
         TalkIs(s, dec, answer, "reading", sent, output, n),
         NEW input \in Seq(Byte), NEW d \in Decodings, d = Decode(dec, input),
         NEW place, place # "left", place # "replying" => d.reply = <<>>
  PROVE  TalkIs(s \o input, [state |-> d.state, command |-> d.command], d.reply, place, sent, output, n)
<1>1. Heard(s, s \o input, d)
  <2>1. Follows(s, dec)
    BY DEF TalkIs
  <2> QED
    BY <2>1, DecodeFollows
<1>2. Follows(s \o input, [state |-> d.state, command |-> d.command])
  <2>1. Follows(s \o input, d)
    BY <1>1 DEF Heard
  <2> QED
    BY <2>1 DEF Follows, Stands
<1>3. answer = <<>> /\ CommandsIn(sent) \o answer = Greeting \o AnswersTo(s)
  BY DEF TalkIs
<1>4. CommandsIn(sent) \in Seq(Byte) /\ AnswersTo(s) \in Seq(Byte) /\ d.reply \in Seq(Byte)
  BY StreamMeaningTyped DEF Decodings
<1>5. CommandsIn(sent) \o d.reply = Greeting \o AnswersTo(s \o input)
  <2>1. CommandsIn(sent) \o <<>> = CommandsIn(sent)
    BY <1>4, ConcatEmptySeq
  <2>2. PICK a \in Seq(Byte), b \in Seq(Byte), r \in Seq(Byte) : a = Greeting /\ b = AnswersTo(s) /\ r = d.reply
    BY <1>4, GreetingIsNeutral
  <2>3. PICK left, right, w : left = CommandsIn(sent) /\ right = AnswersTo(s \o input) /\ w = left \o r
    OBVIOUS
  <2>4. Joins(left, a, b)
    BY <1>3, <2>1, <2>2, <2>3, Zenon DEF Joins
  <2>5. Joins(right, b, r)
    BY <1>1, <2>2, <2>3, Zenon DEF Heard, Joins
  <2>6. Joins(w, left, r)
    BY <2>3 DEF Joins
  <2>7. Joins(w, a, right)
    BY <2>2, <2>4, <2>5, <2>6, JoinsRight, SMTT(60)
  <2> QED
    BY <2>2, <2>3, <2>7, Zenon DEF Joins
<1>6. Whole(sent) /\ DataIn(sent) = FlattenSeq(SubSeq(output, 1, n))
  BY DEF TalkIs
<1>7. Neutral(d.reply)
  BY <1>1 DEF Heard
<1> QED
  BY <1>2, <1>5, <1>6, <1>7 DEF TalkIs

\* The answers are written.
LEMMA TalkReplies ==
  ASSUME NEW s \in Seq(Byte), NEW dec, NEW answer \in Seq(Byte), NEW sent \in Seq(Byte), NEW output, NEW n,
         TalkIs(s, dec, answer, "replying", sent, output, n), NEW place, place # "left"
  PROVE  TalkIs(s, dec, <<>>, place, sent \o answer, output, n)
<1>1. PICK more : more = sent \o answer
  OBVIOUS
<1>2. Whole(sent) /\ Neutral(answer) /\ Follows(s, dec)
  BY DEF TalkIs
<1>3. /\ Whole(more)
      /\ Joins(DataIn(more), DataIn(sent), <<>>)
      /\ Joins(CommandsIn(more), CommandsIn(sent), answer)
  BY <1>1, <1>2, Zenon DEF Neutral, Adds
<1>4. more \in Seq(Byte) /\ DataIn(sent) \in Seq(Byte)
  BY <1>1, ConcatProperties, StreamMeaningTyped
<1>5. CommandsIn(more) \in Seq(Byte)
  BY <1>4, StreamMeaningTyped
<1>6. DataIn(more) = DataIn(sent)
  BY <1>3, <1>4, ConcatEmptySeq DEF Joins
<1>7. CommandsIn(more) \o <<>> = CommandsIn(sent) \o answer
  BY <1>3, <1>5, ConcatEmptySeq DEF Joins
<1>8. CommandsIn(sent) \o answer = Greeting \o AnswersTo(s) /\ DataIn(sent) = FlattenSeq(SubSeq(output, 1, n))
  BY DEF TalkIs
<1>9. CommandsIn(more) \o <<>> = Greeting \o AnswersTo(s)
  BY <1>7, <1>8, Zenon
<1>10. TalkIs(s, dec, <<>>, place, more, output, n)
  BY <1>2, <1>3, <1>6, <1>8, <1>9, AddsNothing, Zenon DEF TalkIs
<1> QED
  BY <1>1, <1>10

\* What was to be answered is lost when the handler ends.
LEMMA TalkEnds ==
  ASSUME NEW s \in Seq(Byte), NEW dec, NEW answer \in Seq(Byte), NEW sent \in Seq(Byte), NEW output, NEW n,
         NEW place, place # "left", TalkIs(s, dec, answer, place, sent, output, n)
  PROVE  TalkIs(s, dec, <<>>, "left", sent, output, n)
<1>1. /\ CommandsIn(sent) \o answer = Greeting \o AnswersTo(s)
      /\ Follows(s, dec) /\ Whole(sent) /\ DataIn(sent) = FlattenSeq(SubSeq(output, 1, n))
  BY DEF TalkIs
<1>2. PICK a \in Seq(Byte) : a = CommandsIn(sent)
  BY StreamMeaningTyped
<1>3. PICK b : b = Greeting \o AnswersTo(s)
  OBVIOUS
<1>4. a \o <<>> = a
  BY <1>2, ConcatEmptySeq
<1>5. IsPrefix(a, b)
  BY <1>1, <1>2, <1>3 DEF IsPrefix
<1>6. IsPrefix(CommandsIn(sent) \o <<>>, Greeting \o AnswersTo(s))
  BY <1>2, <1>3, <1>4, <1>5
<1> QED
  BY <1>1, <1>6, AddsNothing, Zenon DEF TalkIs

\* The next piece of the output is encoded and written.
LEMMA TalkShows ==
  ASSUME NEW s \in Seq(Byte), NEW dec, NEW answer \in Seq(Byte), NEW sent \in Seq(Byte),
         NEW output \in Seq(Seq(Byte)), NEW n \in Nat, n < Len(output),
         NEW place, place # "left", TalkIs(s, dec, answer, place, sent, output, n)
  PROVE  TalkIs(s, dec, answer, place, sent \o Encode(output[n + 1]), output, n + 1)
<1>1. PICK T : T = Seq(Byte)
  OBVIOUS
<1>2. output \in Seq(T) /\ n + 1 \in 1..Len(output)
  BY <1>1, LenProperties
<1>3. PICK piece \in Seq(Byte) : piece = output[n + 1]
  BY <1>1, <1>2, ElementOfSeq
<1>4. PICK more : more = sent \o Encode(piece)
  OBVIOUS
<1>5. Whole(sent) /\ Neutral(answer) /\ Follows(s, dec) /\ (place # "replying" => answer = <<>>)
  BY DEF TalkIs
<1>6. Encode(piece) \in Seq(Byte) /\ Adds(Encode(piece), piece, <<>>)
  BY EncodeTyped, EncodeAdds
<1>7. /\ Whole(more)
      /\ Joins(DataIn(more), DataIn(sent), piece)
      /\ Joins(CommandsIn(more), CommandsIn(sent), <<>>)
  BY <1>4, <1>5, <1>6, Zenon DEF Adds
<1>8. CommandsIn(more) = CommandsIn(sent)
  <2>1. CommandsIn(sent) \in Seq(Byte)
    BY StreamMeaningTyped
  <2> QED
    BY <1>7, <2>1, ConcatEmptySeq DEF Joins
<1>9. DataIn(more) = FlattenSeq(SubSeq(output, 1, n + 1))
  <2>1. PICK a, b : a = SubSeq(output, 1, n) /\ b = SubSeq(output, 1, n + 1)
    OBVIOUS
  <2>2. a \in Seq(T)
    <3>1. \A j \in 1..n : j \in 1..Len(output)
      BY <1>2, LenProperties
    <3>2. \A j \in 1..n : output[j] \in T
      BY <1>2, <3>1, ElementOfSeq
    <3> QED
      BY <2>1, <3>2, SubSeqProperties
  <2>3. b = Append(a, piece)
    <3>1. 1 \in 1..Len(output) /\ n + 1 \in 1..Len(output) /\ (n + 1) - 1 = n
      BY <1>2
    <3>2. b = SubSeq(output, 1, (n + 1) - 1) \o <<piece>>
      BY <1>2, <1>3, <2>1, <3>1, SubSeqRecursiveSecond
    <3>3. b = a \o <<piece>>
      BY <2>1, <3>1, <3>2
    <3>4. piece \in T
      BY <1>1
    <3> QED
      BY <2>2, <3>3, <3>4, AppendIsConcat
  <2>4. a \in Seq(Seq(Byte))
    BY <1>1, <2>2
  <2>5. FlattenSeq(b) = FlattenSeq(a) \o piece
    BY <2>3, <2>4, FlattenAppend, Zenon
  <2>6. DataIn(sent) = FlattenSeq(a)
    BY <2>1 DEF TalkIs
  <2> QED
    BY <1>7, <2>1, <2>5, <2>6, Zenon DEF Joins
<1>10. CommandsIn(more) \o answer = Greeting \o AnswersTo(s)
  BY <1>8 DEF TalkIs
<1>11. TalkIs(s, dec, answer, place, more, output, n + 1)
  BY <1>5, <1>7, <1>9, <1>10, Zenon DEF TalkIs
<1> QED
  BY <1>3, <1>4, <1>11

\* In between, the handler writes to the port.
LEMMA TalkGoesOn ==
  ASSUME NEW s, NEW dec, NEW answer, NEW place, NEW later, NEW sent, NEW output, NEW n,
         TalkIs(s, dec, answer, place, sent, output, n),
         place \notin {"replying", "left"}, later # "left"
  PROVE  TalkIs(s, dec, answer, later, sent, output, n)
BY DEF TalkIs

-----------------------------------------------------------------------------
(* The inductive invariant.                                                *)

Places == {"reading", "replying", "writing", "port", "record", "left"}

\* TypeOK, with the domain of every function.
Shape ==
  /\ scenario \in Scenarios
  /\ got \in [Clients -> Nat]
  /\ decoder \in [Clients -> Decoders]
  /\ reply \in [Clients -> Seq(Byte)]
  /\ units \in [Clients -> Seq(UnitsOfInput)]
  /\ age \in [Clients -> 0..EscapeDelay]
  /\ pc \in [Clients -> Places]
  /\ written \in [Clients -> Nat]
  /\ writer \in Clients \cup {None}
  /\ wire \in Seq(Clients \X Byte)
  /\ history \in Seq(Seq(Byte) \ {<<>>})
  /\ toClient \in [Clients -> Seq(Byte)]
  /\ shown \in [Clients -> 0..Len(scenario.output)]
  /\ calm \in [Clients -> 0..EscapeDelay]
  /\ \A c \in Clients : got[c] <= Len(Input(c))

\* A handler that writes has a unit to write, and port.Write took some of it.
Busy ==
  \A c \in Clients :
    /\ pc[c] \in {"writing", "port", "record"} => units[c] # <<>>
    /\ pc[c] = "record" => written[c] <= Len(Head(units[c]).data)

\* writeMu is held from before port.Write until after addRecord.
Holder == \A c \in Clients : pc[c] \in {"port", "record"} <=> writer = c

OnTheWire == [i \in DOMAIN wire |-> wire[i][2]]

\* The history is behind the wire by what was taken and is not recorded yet.
OnePieceBehind ==
  /\ (\A c \in Clients : pc[c] # "record") => FlattenSeq(history) = OnTheWire
  /\ \A c \in Clients :
       pc[c] = "record" => FlattenSeq(history) \o Piece(c, written[c]) = OnTheWire

\* lastEscape is set only after the sequence was written, and is never set
\* back: age is the shorter time but between the two, where a sequence that
\* was not written in full ends the handler.
AgeIsCalm ==
  \A c \in Clients :
    /\ pc[c] \notin {"record", "left"} => age[c] <= calm[c]
    /\ pc[c] = "record" /\ ~Head(units[c]).escape => age[c] <= calm[c]
    /\ pc[c] = "port" /\ Head(units[c]).escape => age[c] >= EscapeDelay

InputInv == Shape /\ Busy /\ Holder /\ OnePieceBehind /\ AgeIsCalm

-----------------------------------------------------------------------------
(* Shape and Busy, action by action.                                       *)

LEMMA ScenarioTyped ==
  ASSUME Shape
  PROVE  /\ \A c \in Clients : Input(c) \in Seq(Byte)
         /\ EscapeDelay \in Nat
         /\ scenario.output \in Seq(Seq(Byte))
BY ClientInputAssumption DEF Shape, Input, EscapeDelay

LEMMA InitShape == Init => Shape /\ Busy
<1> SUFFICES ASSUME Init
             PROVE  Shape /\ Busy
  OBVIOUS
<1>1. scenario \in Scenarios
  BY DEF Init
<1>2. /\ \A c \in Clients : Input(c) \in Seq(Byte)
      /\ EscapeDelay \in Nat
      /\ scenario.output \in Seq(Seq(Byte))
  BY <1>1, ClientInputAssumption DEF Input, EscapeDelay
<1>3. NewDecoder \in Decoders
  BY DEF NewDecoder, Decoders, DecoderStates, Negotiations
<1>4. Greeting \in Seq(Byte)
  BY Codes DEF Greeting, Negotiations
<1>5. toClient \in [Clients -> Seq(Byte)]
  BY <1>4 DEF Init
<1>6. /\ got \in [Clients -> Nat]
      /\ decoder \in [Clients -> Decoders]
      /\ reply \in [Clients -> Seq(Byte)]
      /\ units \in [Clients -> Seq(UnitsOfInput)]
      /\ pc \in [Clients -> Places]
      /\ written \in [Clients -> Nat]
  BY <1>3, EmptySeq DEF Init, Places
<1>7. /\ age \in [Clients -> 0..EscapeDelay]
      /\ calm \in [Clients -> 0..EscapeDelay]
      /\ shown \in [Clients -> 0..Len(scenario.output)]
  BY <1>2, LenProperties DEF Init
<1>8. writer \in Clients \cup {None} /\ wire \in Seq(Clients \X Byte) /\ history \in Seq(Seq(Byte) \ {<<>>})
  BY EmptySeq DEF Init
<1>9. \A c \in Clients : got[c] <= Len(Input(c))
  BY <1>2, LenProperties DEF Init
<1>10. Busy
  BY DEF Init, Busy
<1> QED
  BY <1>1, <1>5, <1>6, <1>7, <1>8, <1>9, <1>10 DEF Shape

LEMMA DecodedTyped ==
  ASSUME Shape, NEW c \in Clients, NEW bytes \in Seq(Byte)
  PROVE  Decoded(c, bytes) \in Decodings
<1>1. decoder[c] \in Decoders
  BY DEF Shape
<1>2. AllData(bytes) \in Decodings
  BY EmptySeq DEF AllData, Decodings, DecoderStates, Negotiations
<1> QED
  BY <1>1, <1>2, DecodeTyped, Zenon DEF Decoded

LEMMA UnitsTyped ==
  ASSUME Shape, NEW c \in Clients, NEW bytes \in Seq(Byte), bytes # <<>>
  PROVE  Units(c, Unpadded(c, Decoded(c, bytes).data)) \in Seq(UnitsOfInput)
<1>1. Decoded(c, bytes).data \in Seq(Byte)
  BY DecodedTyped DEF Decodings
<1>2. Unpadded(c, Decoded(c, bytes).data) \in Seq(Byte)
  BY <1>1, DropAfterCRTyped, Zenon DEF Unpadded
<1>3. CASE Is(c, "websocket")
  <2>1. ~Is(c, "telnet")
    BY <1>3 DEF Is
  <2>2. Decoded(c, bytes).data = bytes
    BY <2>1 DEF Decoded, AllData
  <2>3. Unpadded(c, Decoded(c, bytes).data) = bytes
    BY <2>1, <2>2, Zenon DEF Unpadded
  <2>4. PICK unit \in UnitsOfInput : unit = [data |-> bytes, escape |-> FALSE]
    BY DEF UnitsOfInput
  <2>5. <<unit>> \in Seq(UnitsOfInput)
    OBVIOUS
  <2> QED
    BY <1>3, <2>3, <2>4, <2>5, Zenon DEF Units
<1>4. CASE ~Is(c, "websocket")
  BY <1>2, <1>4, SplitTyped, Zenon DEF Units
<1> QED
  BY <1>3, <1>4

LEMMA ReadShape ==
  ASSUME Shape, Busy, NEW c \in Clients, NEW n \in 1..(Len(Input(c)) - got[c]), Read(c, n)
  PROVE  Shape' /\ Busy'
<1>1. Input(c) \in Seq(Byte) /\ got[c] \in Nat /\ got[c] <= Len(Input(c)) /\ Len(Input(c)) \in Nat
  BY ScenarioTyped, LenProperties DEF Shape
<1>2. got[c] + 1 >= 1 /\ got[c] + n \in Nat /\ got[c] + n <= Len(Input(c)) /\ n \in Nat
  BY <1>1
<1>3. PICK bytes \in Seq(Byte) : bytes = SubSeq(Input(c), got[c] + 1, got[c] + n) /\ bytes # <<>>
  <2>1. PICK w \in Seq(Byte), m \in Nat : w = Input(c) /\ m = got[c] /\ m + n <= Len(w) /\ Len(w) \in Nat
    BY <1>1, <1>2
  <2>2. PICK i \in Nat, j \in Nat : i = m + 1 /\ j = m + n /\ i >= 1 /\ i <= j /\ j <= Len(w)
    BY <1>2, <2>1
  <2>3. SubSeq(w, i, j) \in Seq(Byte) /\ Len(SubSeq(w, i, j)) # 0
    <3>1. \A k \in i..j : w[k] \in Byte
      BY <2>1, <2>2, ElementOfSeq
    <3> QED
      BY <2>2, <3>1, SubSeqProperties
  <2>4. SubSeq(w, i, j) # <<>>
    BY <2>3, EmptySeq, Zenon
  <2> QED
    BY <2>1, <2>2, <2>3, <2>4, Zenon
<1>4. PICK d \in Decodings : d = Decoded(c, bytes)
  BY DecodedTyped
<1>5. PICK cuts \in Seq(UnitsOfInput) : cuts = Units(c, Unpadded(c, d.data))
  BY <1>3, <1>4, UnitsTyped, Zenon
<1>6. /\ decoder' = [decoder EXCEPT ![c] = [state |-> d.state, command |-> d.command]]
      /\ reply' = [reply EXCEPT ![c] = d.reply]
      /\ units' = [units EXCEPT ![c] = cuts]
      /\ pc' = [pc EXCEPT ![c] = CASE d.reply # <<>> -> "replying"
                                   [] d.reply = <<>> /\ cuts # <<>> -> "writing"
                                   [] d.reply = <<>> /\ cuts = <<>> -> "reading"]
  BY <1>3, <1>4, <1>5, Zenon DEF Read
<1>7. /\ got' = [got EXCEPT ![c] = @ + n]
      /\ age' = [age EXCEPT ![c] = age[c]]
      /\ UNCHANGED <<scenario, written, writer, wire, history, toClient, shown, calm>>
  BY Zenon DEF Read, AgeAtRead, portVars, outVars
<1>8. [state |-> d.state, command |-> d.command] \in Decoders /\ d.reply \in Seq(Byte)
  BY <1>4 DEF Decodings, Decoders
<1>9. PICK place \in {"replying", "writing", "reading"} :
        pc' = [pc EXCEPT ![c] = place] /\ (place = "writing" => cuts # <<>>)
  BY <1>6
<1>10. /\ decoder' \in [Clients -> Decoders]
       /\ reply' \in [Clients -> Seq(Byte)]
       /\ units' \in [Clients -> Seq(UnitsOfInput)]
       /\ pc' \in [Clients -> Places]
       /\ got' \in [Clients -> Nat]
  BY <1>2, <1>6, <1>7, <1>8, <1>9 DEF Shape, Places
<1>11. age' \in [Clients -> 0..EscapeDelay']
  BY <1>7 DEF Shape, EscapeDelay
<1>12. \A k \in Clients : got'[k] <= Len(Input(k)')
  BY <1>1, <1>2, <1>7 DEF Shape, Input
<1>13. Shape'
  BY <1>7, <1>10, <1>11, <1>12 DEF Shape, EscapeDelay
<1>14. Busy'
  BY <1>6, <1>7, <1>9 DEF Busy, Shape
<1> QED
  BY <1>13, <1>14

LEMMA ReplyShape ==
  ASSUME Shape, Busy, NEW c \in Clients, Reply(c)
  PROVE  Shape' /\ Busy'
<1>1. /\ toClient' = [toClient EXCEPT ![c] = @ \o reply[c]]
      /\ reply' = [reply EXCEPT ![c] = <<>>]
      /\ UNCHANGED <<scenario, got, decoder, units, age, written, writer, wire, history, shown, calm>>
  BY DEF Reply, portVars
<1>2. PICK place \in {"reading", "writing"} :
        pc' = [pc EXCEPT ![c] = place] /\ (place = "writing" => units[c] # <<>>)
  BY DEF Reply
<1>3. /\ toClient' \in [Clients -> Seq(Byte)]
      /\ reply' \in [Clients -> Seq(Byte)]
      /\ pc' \in [Clients -> Places]
  <2>1. toClient[c] \o reply[c] \in Seq(Byte) /\ <<>> \in Seq(Byte)
    BY ConcatProperties, EmptySeq DEF Shape
  <2> QED
    BY <1>1, <1>2, <2>1 DEF Shape, Places
<1>4. Shape'
  BY <1>1, <1>3 DEF Shape, EscapeDelay, Input
<1>5. Busy'
  BY <1>1, <1>2 DEF Busy, Shape
<1> QED
  BY <1>4, <1>5

LEMMA GoneShape ==
  ASSUME Shape, NEW c \in Clients, Gone(c)
  PROVE  /\ pc' \in [Clients -> Places]
         /\ reply' \in [Clients -> Seq(Byte)]
         /\ units' \in [Clients -> Seq(UnitsOfInput)]
BY EmptySeq DEF Gone, Shape, Places

LEMMA LeaveShape ==
  ASSUME Shape, Busy, NEW c \in Clients, Leave(c)
  PROVE  Shape' /\ Busy'
<1>1. /\ Gone(c)
      /\ UNCHANGED <<scenario, got, decoder, age, written, writer, wire, history, toClient, shown, calm>>
  BY DEF Leave, portVars, outVars
<1>2. Shape'
  BY <1>1, GoneShape DEF Shape, EscapeDelay, Input
<1>3. Busy'
  BY <1>1 DEF Busy, Shape, Gone
<1> QED
  BY <1>2, <1>3

LEMMA LockWriteShape ==
  ASSUME Shape, Busy, NEW c \in Clients, LockWrite(c)
  PROVE  Shape' /\ Busy'
<1>1. /\ pc[c] = "writing"
      /\ writer' = c
      /\ pc' = [pc EXCEPT ![c] = "port"]
      /\ UNCHANGED <<scenario, got, decoder, reply, units, age, written, wire, history,
                     toClient, shown, calm>>
  BY DEF LockWrite, outVars
<1>2. pc' \in [Clients -> Places]
  BY <1>1 DEF Shape, Places
<1>3. Shape'
  BY <1>1, <1>2 DEF Shape, EscapeDelay, Input
<1>4. Busy'
  BY <1>1 DEF Busy, Shape
<1> QED
  BY <1>3, <1>4

\* The unit that is written, and what of it the port may take.
LEMMA UnitInHand ==
  ASSUME Shape, Busy, NEW c \in Clients, pc[c] \in {"writing", "port", "record"}
  PROVE  /\ units[c] # <<>>
         /\ units[c] \in Seq(UnitsOfInput)
         /\ Head(units[c]) \in UnitsOfInput
         /\ Head(units[c]).data \in Seq(Byte)
         /\ Len(Head(units[c]).data) \in Nat \ {0}
         /\ \A n \in 0..Len(Head(units[c]).data) :
              Piece(c, n) \in Seq(Byte) /\ Len(Piece(c, n)) = n
<1>1. units[c] # <<>> /\ units[c] \in Seq(UnitsOfInput)
  BY DEF Shape, Busy
<1>2. PICK u \in UnitsOfInput : u = Head(units[c])
  BY <1>1, HeadTailProperties
<1>3. PICK w \in Seq(Byte) : w = u.data /\ w # <<>>
  BY <1>2 DEF UnitsOfInput
<1>4. Len(w) \in Nat \ {0}
  BY <1>3, EmptySeq
<1>5. ASSUME NEW n \in 0..Len(w)
      PROVE  SubSeq(w, 1, n) \in Seq(Byte) /\ Len(SubSeq(w, 1, n)) = n
  BY <1>4
<1> QED
  BY <1>1, <1>2, <1>3, <1>4, <1>5, Zenon DEF Piece

LEMMA PortWriteStep ==
  ASSUME Shape, Busy, NEW c \in Clients, PortWrite(c)
  PROVE  \E n \in 0..Len(Head(units[c]).data) :
           /\ written' = [written EXCEPT ![c] = n]
           /\ wire' = wire \o [i \in 1..n |-> <<c, Piece(c, n)[i]>>]
           /\ calm' = IF Head(units[c]).escape /\ n > 0 THEN [calm EXCEPT ![c] = 0] ELSE calm
           /\ n = 0 => wire' = wire
<1>1. pc[c] = "port"
  BY DEF PortWrite
<1>2. PICK size \in Nat \ {0} : size = Len(Head(units[c]).data)
  BY <1>1, UnitInHand, Zenon
<1>3. PICK n \in {size - 1, size} :
        /\ written' = [written EXCEPT ![c] = n]
        /\ wire' = wire \o [i \in 1..n |-> <<c, Piece(c, n)[i]>>]
        /\ calm' = IF Head(units[c]).escape /\ n > 0 THEN [calm EXCEPT ![c] = 0] ELSE calm
  BY <1>2, Zenon DEF PortWrite
<1>4. n \in 0..size
  BY <1>2
<1>5. ASSUME n = 0
      PROVE  wire' = wire
  <2>1. [i \in 1..n |-> <<c, Piece(c, n)[i]>>] = <<>>
    BY <1>5
  <2>2. wire \o <<>> = wire
    BY ConcatEmptySeq DEF Shape
  <2> QED
    BY <1>3, <2>1, <2>2, Zenon
<1> QED
  BY <1>2, <1>3, <1>4, <1>5, Zenon

LEMMA PortWriteShape ==
  ASSUME Shape, Busy, NEW c \in Clients, PortWrite(c)
  PROVE  Shape' /\ Busy'
<1>1. /\ pc[c] = "port"
      /\ pc' = [pc EXCEPT ![c] = "record"]
      /\ UNCHANGED <<scenario, got, decoder, reply, units, age, writer, history, toClient, shown>>
  BY DEF PortWrite, outVars
<1>2. PICK n \in 0..Len(Head(units[c]).data) :
           /\ written' = [written EXCEPT ![c] = n]
           /\ wire' = wire \o [i \in 1..n |-> <<c, Piece(c, n)[i]>>]
           /\ calm' = IF Head(units[c]).escape /\ n > 0 THEN [calm EXCEPT ![c] = 0] ELSE calm
  BY PortWriteStep, Zenon
<1>3. Piece(c, n) \in Seq(Byte) /\ Len(Piece(c, n)) = n /\ n \in Nat /\ n <= Len(Head(units[c]).data)
  BY <1>1, <1>2, UnitInHand
<1>4. wire' \in Seq(Clients \X Byte)
  <2>1. \A i \in 1..n : Piece(c, n)[i] \in Byte
    BY <1>3, ElementOfSeq
  <2>2. [i \in 1..n |-> <<c, Piece(c, n)[i]>>] \in Seq(Clients \X Byte)
    BY <1>3, <2>1
  <2> QED
    BY <1>2, <2>2, ConcatProperties DEF Shape
<1>5. calm' \in [Clients -> 0..EscapeDelay]
  <2>1. calm \in [Clients -> 0..EscapeDelay] /\ 0 \in 0..EscapeDelay
    <3>1. EscapeDelay \in Nat
      BY ScenarioTyped
    <3> QED
      BY <3>1 DEF Shape
  <2>2. [calm EXCEPT ![c] = 0] \in [Clients -> 0..EscapeDelay]
    BY <2>1
  <2> QED
    BY <1>2, <2>1, <2>2, Zenon
<1>6. pc' \in [Clients -> Places] /\ written' \in [Clients -> Nat]
  BY <1>1, <1>2, <1>3 DEF Shape, Places
<1>7. Shape'
  BY <1>1, <1>4, <1>5, <1>6 DEF Shape, EscapeDelay, Input
<1>8. Busy'
  BY <1>1, <1>2, <1>3 DEF Busy, Shape
<1> QED
  BY <1>7, <1>8

LEMMA RecordedTyped ==
  ASSUME Shape, Busy, NEW c \in Clients, pc[c] = "record"
  PROVE  /\ Recorded(c) \in Seq(Seq(Byte) \ {<<>>})
         /\ Piece(c, written[c]) \in Seq(Byte)
<1>1. written[c] \in 0..Len(Head(units[c]).data)
  BY UnitInHand DEF Busy, Shape
<1>2. PICK p \in Seq(Byte) : p = Piece(c, written[c]) /\ Len(p) = written[c]
  BY <1>1, UnitInHand, Zenon
<1>3. CASE written[c] > 0
  <2>1. p \in Seq(Byte) \ {<<>>}
    BY <1>2, <1>3, EmptySeq
  <2>2. <<p>> \in Seq(Seq(Byte) \ {<<>>})
    BY <2>1
  <2> QED
    BY <1>2, <1>3, <2>2, Zenon DEF Recorded
<1>4. CASE ~(written[c] > 0)
  BY <1>2, <1>4, EmptySeq DEF Recorded
<1> QED
  BY <1>3, <1>4

LEMMA RecordShape ==
  ASSUME Shape, Busy, NEW c \in Clients, Record(c)
  PROVE  Shape' /\ Busy'
<1>1. /\ pc[c] = "record"
      /\ history' = history \o Recorded(c)
      /\ writer' = None
      /\ UNCHANGED <<scenario, got, decoder, written, wire, toClient, shown, calm>>
  BY DEF Record, WriterAfter, outVars
<1>2. history' \in Seq(Seq(Byte) \ {<<>>})
  BY <1>1, RecordedTyped, ConcatProperties DEF Shape
<1>3. CASE written[c] = Len(Head(units[c]).data)
  <2>1. /\ units' = [units EXCEPT ![c] = Tail(@)]
        /\ age' = IF Head(units[c]).escape THEN [age EXCEPT ![c] = 0] ELSE age
        /\ pc' = [pc EXCEPT ![c] = IF Len(units[c]) = 1 THEN "reading" ELSE "writing"]
        /\ reply' = reply
    BY <1>3 DEF Record
  <2>2. Tail(units[c]) \in Seq(UnitsOfInput) /\ (Len(units[c]) # 1 => Tail(units[c]) # <<>>)
    <3>1. units[c] # <<>> /\ units[c] \in Seq(UnitsOfInput)
      BY <1>1, UnitInHand
    <3>2. Tail(units[c]) \in Seq(UnitsOfInput) /\ Len(Tail(units[c])) = Len(units[c]) - 1
      BY <3>1, HeadTailProperties
    <3>3. Len(units[c]) \in Nat
      BY <3>1, LenProperties
    <3>4. Len(units[c]) # 1 => Len(Tail(units[c])) # 0
      BY <3>2, <3>3
    <3> QED
      BY <3>2, <3>4, EmptySeq, Zenon
  <2>3. age' \in [Clients -> 0..EscapeDelay]
    <3>1. age \in [Clients -> 0..EscapeDelay] /\ EscapeDelay \in Nat /\ 0 \in 0..EscapeDelay
      <4>1. EscapeDelay \in Nat
        BY ScenarioTyped
      <4> QED
        BY <4>1 DEF Shape
    <3>2. [age EXCEPT ![c] = 0] \in [Clients -> 0..EscapeDelay]
      BY <3>1
    <3> QED
      BY <2>1, <3>1, <3>2, Zenon
  <2>4. units' \in [Clients -> Seq(UnitsOfInput)] /\ pc' \in [Clients -> Places]
    BY <2>1, <2>2 DEF Shape, Places
  <2>5. Shape'
    BY <1>1, <1>2, <2>1, <2>3, <2>4 DEF Shape, EscapeDelay, Input
  <2>6. Busy'
    BY <1>1, <2>1, <2>2 DEF Busy, Shape
  <2> QED
    BY <2>5, <2>6
<1>4. CASE written[c] # Len(Head(units[c]).data)
  <2>1. Gone(c) /\ age' = age
    BY <1>4 DEF Record
  <2>2. Shape'
    BY <1>1, <1>2, <2>1, GoneShape DEF Shape, EscapeDelay, Input
  <2>3. Busy'
    BY <1>1, <2>1 DEF Busy, Shape, Gone
  <2> QED
    BY <2>2, <2>3
<1> QED
  BY <1>3, <1>4

LEMMA ShowShape ==
  ASSUME Shape, Busy, NEW c \in Clients, Show(c)
  PROVE  Shape' /\ Busy'
<1>1. /\ shown[c] < Len(scenario.output)
      /\ shown' = [shown EXCEPT ![c] = @ + 1]
      /\ toClient' = [toClient EXCEPT ![c] = @ \o Encode(scenario.output[shown'[c]])]
      /\ UNCHANGED <<scenario, got, decoder, reply, units, age, pc, written, writer, wire, history, calm>>
  BY DEF Show, inVars, portVars
<1>2. PICK out \in Seq(Seq(Byte)), len \in Nat : out = scenario.output /\ len = Len(scenario.output)
  <2>1. scenario.output \in Seq(Seq(Byte))
    BY ScenarioTyped
  <2> QED
    BY <2>1, LenProperties
<1>3. shown'[c] \in 1..Len(scenario.output) /\ shown' \in [Clients -> 0..Len(scenario.output)]
  <2>1. shown \in [Clients -> 0..len]
    BY <1>2 DEF Shape
  <2>2. shown[c] \in 0..len /\ shown[c] < len
    BY <1>1, <1>2, <2>1
  <2>3. shown' \in [Clients -> 0..len] /\ shown'[c] = shown[c] + 1
    BY <1>1, <2>1, <2>2
  <2> QED
    BY <1>2, <2>2, <2>3
<1>4. Encode(scenario.output[shown'[c]]) \in Seq(Byte)
  <2>1. scenario.output[shown'[c]] \in Seq(Byte)
    BY <1>2, <1>3, ElementOfSeq
  <2> QED
    BY <2>1, EncodeTyped
<1>5. toClient' \in [Clients -> Seq(Byte)]
  <2>1. toClient[c] \o Encode(scenario.output[shown'[c]]) \in Seq(Byte)
    BY <1>4, ConcatProperties DEF Shape
  <2> QED
    BY <1>1, <2>1 DEF Shape
<1>6. Shape'
  BY <1>1, <1>3, <1>5 DEF Shape, EscapeDelay, Input
<1>7. Busy'
  BY <1>1 DEF Busy, Piece
<1> QED
  BY <1>6, <1>7

LEMMA OlderIs ==
  ASSUME NEW times, EscapeDelay \in Nat, times \in [Clients -> 0..EscapeDelay]
  PROVE  \A c \in Clients :
           Older(times)[c] = IF times[c] < EscapeDelay THEN times[c] + 1 ELSE EscapeDelay
<1> SUFFICES ASSUME NEW c \in Clients
             PROVE  Min({times[c] + 1, EscapeDelay})
                      = IF times[c] < EscapeDelay THEN times[c] + 1 ELSE EscapeDelay
  BY DEF Older
<1>1. times[c] \in Nat /\ times[c] <= EscapeDelay
  OBVIOUS
<1>2. PICK m : m = Min({times[c] + 1, EscapeDelay})
  OBVIOUS
<1>3. PICK x \in {times[c] + 1, EscapeDelay} : \A y \in {times[c] + 1, EscapeDelay} : x <= y
  BY <1>1
<1>4. m \in {times[c] + 1, EscapeDelay} /\ \A y \in {times[c] + 1, EscapeDelay} : m <= y
  BY <1>2, <1>3, Zenon DEF Min
<1> QED
  BY <1>1, <1>2, <1>4

LEMMA TickShape ==
  ASSUME Shape, Busy, Tick
  PROVE  Shape' /\ Busy'
<1>1. /\ age' = Older(age) /\ calm' = Older(calm)
      /\ UNCHANGED <<scenario, got, decoder, reply, units, pc, written, writer, wire, history,
                     toClient, shown>>
  BY DEF Tick, portVars, outVars
<1>2. EscapeDelay \in Nat
  BY ScenarioTyped
<1>3. ASSUME NEW times \in [Clients -> 0..EscapeDelay]
      PROVE  Older(times) \in [Clients -> 0..EscapeDelay]
  <2>1. \A c \in Clients : Older(times)[c] \in 0..EscapeDelay
    BY <1>2, OlderIs
  <2>2. Older(times) = [c \in Clients |-> Older(times)[c]]
    BY DEF Older
  <2> QED
    BY <2>1, <2>2
<1>4. age' \in [Clients -> 0..EscapeDelay] /\ calm' \in [Clients -> 0..EscapeDelay]
  BY <1>1, <1>3 DEF Shape
<1>5. Shape'
  BY <1>1, <1>4 DEF Shape, EscapeDelay, Input
<1>6. Busy'
  BY <1>1 DEF Busy
<1> QED
  BY <1>5, <1>6

-----------------------------------------------------------------------------
(* Holder, OnePieceBehind and AgeIsCalm, action by action.                 *)

LEMMA InitPortInv == Shape /\ Init => Holder /\ OnePieceBehind /\ AgeIsCalm
<1> SUFFICES ASSUME Shape, Init
             PROVE  Holder /\ OnePieceBehind /\ AgeIsCalm
  OBVIOUS
<1>1. Holder
  BY ClientInputAssumption DEF Init, Holder
<1>2. OnePieceBehind
  <2>1. FlattenSeq(history) = <<>>
    BY FlattenEmpty DEF Init
  <2>2. OnTheWire = <<>>
    BY DEF Init, OnTheWire
  <2> QED
    BY <2>1, <2>2 DEF Init, OnePieceBehind
<1>3. AgeIsCalm
  <2>1. EscapeDelay \in Nat
    BY ScenarioTyped
  <2> QED
    BY <2>1 DEF Init, AgeIsCalm
<1> QED
  BY <1>1, <1>2, <1>3

\* A handler's steps that have nothing to do with the port.
LEMMA HandlerStep ==
  ASSUME Shape, NEW c \in Clients,
         (\E n \in 1..(Len(Input(c)) - got[c]) : Read(c, n)) \/ Reply(c) \/ Leave(c)
  PROVE  /\ pc[c] \in {"reading", "replying"}
         /\ \E place \in {"reading", "replying", "writing", "left"} : pc' = [pc EXCEPT ![c] = place]
         /\ \E us : units' = [units EXCEPT ![c] = us]
         /\ UNCHANGED <<scenario, age, written, writer, wire, history, calm>>
<1>1. ASSUME NEW n \in 1..(Len(Input(c)) - got[c]), Read(c, n)
      PROVE  /\ pc[c] = "reading"
             /\ \E place \in {"reading", "replying", "writing", "left"} : pc' = [pc EXCEPT ![c] = place]
             /\ \E us : units' = [units EXCEPT ![c] = us]
             /\ UNCHANGED <<scenario, age, written, writer, wire, history, calm>>
  <2>1. PICK reply1, cuts : /\ units' = [units EXCEPT ![c] = cuts]
                            /\ pc' = [pc EXCEPT ![c] =
                                 CASE reply1 # <<>> -> "replying"
                                   [] reply1 = <<>> /\ cuts # <<>> -> "writing"
                                   [] reply1 = <<>> /\ cuts = <<>> -> "reading"]
    BY <1>1, Zenon DEF Read
  <2>2. \E place \in {"reading", "replying", "writing", "left"} : pc' = [pc EXCEPT ![c] = place]
    <3>1. CASE reply1 # <<>>
      BY <2>1, <3>1
    <3>2. CASE reply1 = <<>> /\ cuts # <<>>
      BY <2>1, <3>2
    <3>3. CASE reply1 = <<>> /\ cuts = <<>>
      BY <2>1, <3>3
    <3> QED
      BY <3>1, <3>2, <3>3
  <2>3. /\ pc[c] = "reading"
        /\ age' = [age EXCEPT ![c] = age[c]]
        /\ UNCHANGED <<scenario, written, writer, wire, history, calm>>
    BY <1>1, Zenon DEF Read, AgeAtRead, portVars
  <2>4. age' = age
    BY <2>3 DEF Shape
  <2> QED
    BY <2>1, <2>2, <2>3, <2>4
<1>2. ASSUME Reply(c)
      PROVE  /\ pc[c] = "replying"
             /\ \E place \in {"reading", "replying", "writing", "left"} : pc' = [pc EXCEPT ![c] = place]
             /\ \E us : units' = [units EXCEPT ![c] = us]
             /\ UNCHANGED <<scenario, age, written, writer, wire, history, calm>>
  <2>1. units' = [units EXCEPT ![c] = units[c]]
    BY <1>2 DEF Reply, Shape
  <2> QED
    BY <1>2, <2>1 DEF Reply, portVars
<1>3. ASSUME Leave(c)
      PROVE  /\ pc[c] \in {"reading", "replying"}
             /\ \E place \in {"reading", "replying", "writing", "left"} : pc' = [pc EXCEPT ![c] = place]
             /\ \E us : units' = [units EXCEPT ![c] = us]
             /\ UNCHANGED <<scenario, age, written, writer, wire, history, calm>>
  BY <1>3 DEF Leave, Gone, portVars
<1> QED
  BY <1>1, <1>2, <1>3

LEMMA HandlerPort ==
  ASSUME InputInv, NEW c \in Clients,
         (\E n \in 1..(Len(Input(c)) - got[c]) : Read(c, n)) \/ Reply(c) \/ Leave(c)
  PROVE  Holder' /\ OnePieceBehind' /\ AgeIsCalm'
<1> USE DEF InputInv
<1>1. /\ pc[c] \in {"reading", "replying"}
      /\ UNCHANGED <<scenario, age, written, writer, wire, history, calm>>
  BY HandlerStep, Zenon
<1>2. /\ \E place \in {"reading", "replying", "writing", "left"} : pc' = [pc EXCEPT ![c] = place]
      /\ \E us : units' = [units EXCEPT ![c] = us]
  BY HandlerStep, Zenon
<1>3. PICK place : pc' = [pc EXCEPT ![c] = place] /\ place \in {"reading", "replying", "writing", "left"}
  BY <1>2
<1>4. PICK us : units' = [units EXCEPT ![c] = us]
  BY <1>2
<1>5. \A k \in Clients : pc'[k] = IF k = c THEN place ELSE pc[k]
  BY <1>3 DEF Shape
<1>6. \A k \in Clients : k # c => units'[k] = units[k]
  BY <1>4 DEF Shape
<1>7. Holder'
  BY <1>1, <1>5, <1>3 DEF Holder
<1>8. OnePieceBehind'
  <2>1. OnTheWire' = OnTheWire
    BY <1>1 DEF OnTheWire
  <2>2. ASSUME NEW k \in Clients, pc'[k] = "record"
        PROVE  pc[k] = "record" /\ Piece(k, written[k])' = Piece(k, written[k])
    BY <1>1, <1>5, <1>6, <1>3, <2>2 DEF Piece
  <2>3. (\A k \in Clients : pc'[k] # "record") => \A k \in Clients : pc[k] # "record"
    BY <1>1, <1>5, <1>3
  <2> QED
    BY <1>1, <2>1, <2>2, <2>3, Zenon DEF OnePieceBehind
<1>9. AgeIsCalm'
  BY <1>1, <1>5, <1>6, <1>3 DEF AgeIsCalm, EscapeDelay
<1> QED
  BY <1>7, <1>8, <1>9

LEMMA LockWritePort ==
  ASSUME InputInv, NEW c \in Clients, LockWrite(c)
  PROVE  Holder' /\ OnePieceBehind' /\ AgeIsCalm'
<1> USE DEF InputInv
<1>1. /\ pc[c] = "writing" /\ writer = None /\ writer' = c
      /\ Head(units[c]).escape => age[c] >= EscapeDelay
      /\ UNCHANGED <<scenario, units, age, written, wire, history, calm>>
  BY DEF LockWrite, Rested, WriteMuFree
<1>2. \A k \in Clients : pc'[k] = IF k = c THEN "port" ELSE pc[k]
  BY DEF LockWrite, Shape
<1>3. \A k \in Clients : pc[k] \notin {"port", "record"}
  BY <1>1, ClientInputAssumption DEF Holder
<1>4. Holder'
  BY <1>1, <1>2, <1>3 DEF Holder
<1>5. OnePieceBehind'
  BY <1>1, <1>2, <1>3 DEF OnePieceBehind, OnTheWire
<1>6. AgeIsCalm'
  BY <1>1, <1>2 DEF AgeIsCalm, EscapeDelay
<1> QED
  BY <1>4, <1>5, <1>6

LEMMA LaterPlace ==
  ASSUME NEW m \in Nat, NEW n \in Nat, NEW i \in 1..(m + n), ~(i <= m)
  PROVE  i - m \in 1..n
OBVIOUS

LEMMA IsItsElements ==
  ASSUME NEW T, NEW s \in Seq(T), NEW n, n = Len(s)
  PROVE  s = [i \in 1..n |-> s[i]]
BY LenProperties

\* What port.Write puts on the wire.
LEMMA WireGrows ==
  ASSUME NEW w \in Seq(Clients \X Byte), NEW p \in Seq(Byte), NEW e \in Seq(Clients \X Byte),
         Len(e) = Len(p), \A i \in 1..Len(p) : e[i][2] = p[i]
  PROVE  [i \in DOMAIN (w \o e) |-> (w \o e)[i][2]] = [i \in DOMAIN w |-> w[i][2]] \o p
<1>1. PICK m \in Nat : m = Len(w) /\ DOMAIN w = 1..m
  BY LenProperties
<1>2. PICK n \in Nat : n = Len(p) /\ n = Len(e)
  BY LenProperties
<1>3. PICK longer : longer = w \o e
  OBVIOUS
<1>4. \A i \in 1..n : e[i][2] = p[i]
  BY <1>2
<1>5. /\ longer \in Seq(Clients \X Byte)
      /\ Len(longer) = m + n
      /\ \A i \in 1..(m + n) : longer[i] = IF i <= m THEN w[i] ELSE e[i - m]
  <2>1. /\ w \o e \in Seq(Clients \X Byte)
        /\ Len(w \o e) = Len(w) + Len(e)
        /\ \A i \in 1..(Len(w) + Len(e)) :
             (w \o e)[i] = IF i <= Len(w) THEN w[i] ELSE e[i - Len(w)]
    BY ConcatProperties
  <2> QED
    BY <1>1, <1>2, <1>3, <2>1, Zenon
<1>6. DOMAIN longer = 1..(m + n)
  BY <1>5, LenProperties
<1>7. PICK v \in Seq(Byte) : v = [i \in 1..m |-> w[i][2]] /\ Len(v) = m
  <2>1. \A i \in 1..m : w[i] \in Clients \X Byte
    BY <1>1, ElementOfSeq
  <2>2. \A i \in 1..m : w[i][2] \in Byte
    BY <2>1
  <2>3. PICK v : v = [i \in 1..m |-> w[i][2]]
    OBVIOUS
  <2>4. \A i \in 1..m : v[i] \in Byte
    BY <2>2, <2>3
  <2>5. v \in Seq(Byte) /\ Len(v) = m
    BY <2>3, <2>4, ElementsMakeSeq, SMTT(30)
  <2> QED
    BY <2>3, <2>5
<1>8. /\ v \o p \in Seq(Byte)
      /\ Len(v \o p) = m + n
      /\ \A i \in 1..(m + n) : (v \o p)[i] = IF i <= m THEN v[i] ELSE p[i - m]
  BY <1>2, <1>7, ConcatProperties
<1>9. ASSUME NEW i \in 1..(m + n)
      PROVE  longer[i][2] = (v \o p)[i]
  <2>1. CASE i <= m
    <3>1. i \in 1..m
      BY <2>1
    <3> QED
      BY <1>5, <1>7, <1>8, <2>1, <3>1
  <2>2. CASE ~(i <= m)
    <3>1. i - m \in 1..n
      BY <2>2, LaterPlace, Zenon
    <3> QED
      BY <1>4, <1>5, <1>8, <2>2, <3>1
  <2> QED
    BY <2>1, <2>2
<1>10. v \o p = [i \in 1..(m + n) |-> (v \o p)[i]]
  BY <1>8, IsItsElements, Zenon
<1> QED
  BY <1>1, <1>3, <1>6, <1>7, <1>9, <1>10, Zenon

LEMMA PortWritePort ==
  ASSUME InputInv, NEW c \in Clients, PortWrite(c)
  PROVE  Holder' /\ OnePieceBehind' /\ AgeIsCalm'
<1> USE DEF InputInv
<1>1. /\ pc[c] = "port"
      /\ UNCHANGED <<scenario, units, age, writer, history>>
  BY DEF PortWrite
<1>2. \A k \in Clients : pc'[k] = IF k = c THEN "record" ELSE pc[k]
  BY DEF PortWrite, Shape
<1>3. PICK n \in 0..Len(Head(units[c]).data) :
           /\ written' = [written EXCEPT ![c] = n]
           /\ wire' = wire \o [i \in 1..n |-> <<c, Piece(c, n)[i]>>]
           /\ calm' = IF Head(units[c]).escape /\ n > 0 THEN [calm EXCEPT ![c] = 0] ELSE calm
  BY PortWriteStep, Zenon
<1>4. \A k \in Clients : k # c => pc[k] \notin {"port", "record"}
  BY <1>1 DEF Holder
<1>5. Holder'
  BY <1>1, <1>2 DEF Holder
<1>6. OnePieceBehind'
  <2>1. PICK p \in Seq(Byte) : p = Piece(c, n) /\ Len(p) = n /\ n \in Nat
    BY <1>1, UnitInHand
  <2>2. OnTheWire' = OnTheWire \o p
    <3>1. PICK e : e = [i \in 1..n |-> <<c, p[i]>>]
      OBVIOUS
    <3>2. wire \in Seq(Clients \X Byte) /\ wire' = wire \o e
      BY <1>3, <2>1, <3>1, Zenon DEF Shape
    <3>3. \A i \in 1..n : p[i] \in Byte
      BY <2>1, ElementOfSeq
    <3>4. e \in Seq(Clients \X Byte) /\ Len(e) = Len(p) /\ \A i \in 1..Len(p) : e[i][2] = p[i]
      BY <2>1, <3>1, <3>3
    <3>5. [i \in DOMAIN (wire \o e) |-> (wire \o e)[i][2]] = [i \in DOMAIN wire |-> wire[i][2]] \o p
      BY <3>2, <3>4, WireGrows
    <3> QED
      BY <3>2, <3>5, Zenon DEF OnTheWire
  <2>3. FlattenSeq(history) = OnTheWire
    BY <1>1, <1>4 DEF OnePieceBehind
  <2>4. Piece(c, written[c])' = p
    <3>1. written'[c] = n
      BY <1>3 DEF Shape
    <3> QED
      BY <1>1, <2>1, <3>1 DEF Piece
  <2>5. \A k \in Clients : pc'[k] = "record" => k = c
    BY <1>2, <1>4
  <2>6. pc'[c] = "record"
    BY <1>2
  <2> QED
    BY <1>1, <2>2, <2>3, <2>4, <2>5, <2>6, Zenon DEF OnePieceBehind
<1>7. AgeIsCalm'
  <2>1. \A k \in Clients : k # c => calm'[k] = calm[k]
    BY <1>3 DEF Shape
  <2>2. ~Head(units[c]).escape => calm' = calm
    BY <1>3
  <2> QED
    BY <1>1, <1>2, <2>1, <2>2 DEF AgeIsCalm, EscapeDelay
<1> QED
  BY <1>5, <1>6, <1>7

LEMMA RecordPort ==
  ASSUME InputInv, NEW c \in Clients, Record(c)
  PROVE  Holder' /\ OnePieceBehind' /\ AgeIsCalm'
<1> USE DEF InputInv
<1>1. /\ pc[c] = "record"
      /\ history' = history \o Recorded(c)
      /\ writer' = None
      /\ UNCHANGED <<scenario, written, wire, calm>>
  BY DEF Record, WriterAfter
<1>2. PICK place \in {"reading", "writing", "left"} : \A k \in Clients : pc'[k] = IF k = c THEN place ELSE pc[k]
  BY DEF Record, Gone, Shape
<1>3. \A k \in Clients : k # c => pc[k] \notin {"port", "record"}
  BY <1>1 DEF Holder
<1>4. \A k \in Clients : pc'[k] \notin {"port", "record"}
  BY <1>2, <1>3
<1>5. Holder'
  BY <1>1, <1>4, ClientInputAssumption DEF Holder
<1>6. OnePieceBehind'
  <2>1. FlattenSeq(history') = FlattenSeq(history) \o Piece(c, written[c])
    <3>1. history \in Seq(Seq(Byte))
      BY DEF Shape
    <3>2. Piece(c, written[c]) \in Seq(Byte) /\ FlattenSeq(history) \in Seq(Byte)
      BY <1>1, <3>1, RecordedTyped, FlattenTyped
    <3>3. CASE written[c] > 0
      <4>1. Recorded(c) = <<Piece(c, written[c])>>
        BY <3>3 DEF Recorded
      <4>2. history \o <<Piece(c, written[c])>> = Append(history, Piece(c, written[c]))
        BY <3>1, <3>2, AppendIsConcat
      <4> QED
        BY <1>1, <3>1, <3>2, <4>1, <4>2, FlattenAppend, Zenon
    <3>4. CASE ~(written[c] > 0)
      <4>1. Recorded(c) = <<>> /\ history \o <<>> = history
        BY <3>1, <3>4, ConcatEmptySeq DEF Recorded
      <4>2. Piece(c, written[c]) = <<>>
        <5>1. written[c] = 0 /\ written[c] \in 0..Len(Head(units[c]).data)
          <6>1. written[c] \in Nat
            BY DEF Shape
          <6>2. Len(Head(units[c]).data) \in Nat
            BY <1>1, UnitInHand
          <6> QED
            BY <3>4, <6>1, <6>2
        <5>2. Len(Piece(c, written[c])) = 0
          BY <1>1, <5>1, UnitInHand
        <5> QED
          BY <3>2, <5>2, EmptySeq
      <4>3. FlattenSeq(history) \o <<>> = FlattenSeq(history)
        BY <3>2, ConcatEmptySeq
      <4> QED
        BY <1>1, <4>1, <4>2, <4>3, Zenon
    <3> QED
      BY <3>3, <3>4
  <2>2. OnTheWire' = OnTheWire
    BY <1>1 DEF OnTheWire
  <2>3. FlattenSeq(history') = OnTheWire'
    BY <1>1, <2>1, <2>2, Zenon DEF OnePieceBehind
  <2>4. \A k \in Clients : pc'[k] # "record"
    BY <1>4
  <2> QED
    BY <2>3, <2>4, Zenon DEF OnePieceBehind
<1>7. AgeIsCalm'
  <2>1. \A k \in Clients : k # c => age'[k] = age[k] /\ units'[k] = units[k]
    BY DEF Record, Gone, Shape
  <2>2. ASSUME place # "left"
        PROVE  age'[c] <= calm[c]
    <3>1. written[c] = Len(Head(units[c]).data)
      <4>1. ASSUME Gone(c)
            PROVE  FALSE
        BY <1>2, <2>2, <4>1 DEF Gone, Shape
      <4> QED
        BY <4>1 DEF Record
    <3>2. age' = IF Head(units[c]).escape THEN [age EXCEPT ![c] = 0] ELSE age
      BY <3>1 DEF Record
    <3>3. calm[c] \in Nat
      BY ScenarioTyped DEF Shape
    <3>4. CASE Head(units[c]).escape
      <4>1. age'[c] = 0
        BY <3>2, <3>4 DEF Shape
      <4> QED
        BY <3>3, <4>1
    <3>5. CASE ~Head(units[c]).escape
      BY <1>1, <3>2, <3>5 DEF AgeIsCalm
    <3> QED
      BY <3>4, <3>5
  <2> QED
    BY <1>1, <1>2, <2>1, <2>2 DEF AgeIsCalm, EscapeDelay
<1> QED
  BY <1>5, <1>6, <1>7

LEMMA OutputPort ==
  ASSUME InputInv, UNCHANGED <<scenario, units, age, pc, written, writer, wire, history, calm>>
  PROVE  Holder' /\ OnePieceBehind' /\ AgeIsCalm'
BY DEF InputInv, Holder, OnePieceBehind, OnTheWire, Piece, AgeIsCalm, EscapeDelay

LEMMA TickPort ==
  ASSUME InputInv, Tick
  PROVE  Holder' /\ OnePieceBehind' /\ AgeIsCalm'
<1> USE DEF InputInv
<1>1. /\ age' = Older(age) /\ calm' = Older(calm)
      /\ UNCHANGED <<scenario, units, pc, written, writer, wire, history>>
  BY DEF Tick, portVars
<1>2. Holder' /\ OnePieceBehind'
  BY <1>1 DEF Holder, OnePieceBehind, OnTheWire, Piece
<1>3. EscapeDelay \in Nat /\ EscapeDelay' = EscapeDelay
  BY <1>1, ScenarioTyped DEF EscapeDelay
<1>4. \A c \in Clients :
        /\ age[c] \in 0..EscapeDelay /\ calm[c] \in 0..EscapeDelay
        /\ age'[c] = IF age[c] < EscapeDelay THEN age[c] + 1 ELSE EscapeDelay
        /\ calm'[c] = IF calm[c] < EscapeDelay THEN calm[c] + 1 ELSE EscapeDelay
  BY <1>1, <1>3, OlderIs DEF Shape
<1>5. AgeIsCalm'
  BY <1>1, <1>3, <1>4 DEF AgeIsCalm
<1> QED
  BY <1>2, <1>5

LEMMA InitInv == Init => InputInv
BY InitShape, InitPortInv DEF InputInv

LEMMA StepInv == InputInv /\ [Next]_vars => InputInv'
<1> SUFFICES ASSUME InputInv, [Next]_vars
             PROVE  InputInv'
  OBVIOUS
<1>1. Shape /\ Busy
  BY DEF InputInv
<1>2. ASSUME NEW c \in Clients, ReadSome(c)
      PROVE  InputInv'
  <2>1. PICK n \in 1..(Len(Input(c)) - got[c]) : Read(c, n)
    BY <1>2 DEF ReadSome
  <2> QED
    BY <1>1, <2>1, ReadShape, HandlerPort DEF InputInv
<1>3. ASSUME NEW c \in Clients, Reply(c)
      PROVE  InputInv'
  BY <1>1, <1>3, ReplyShape, HandlerPort DEF InputInv
<1>4. ASSUME NEW c \in Clients, Leave(c)
      PROVE  InputInv'
  BY <1>1, <1>4, LeaveShape, HandlerPort DEF InputInv
<1>5. ASSUME NEW c \in Clients, LockWrite(c)
      PROVE  InputInv'
  BY <1>1, <1>5, LockWriteShape, LockWritePort DEF InputInv
<1>6. ASSUME NEW c \in Clients, PortWrite(c)
      PROVE  InputInv'
  BY <1>1, <1>6, PortWriteShape, PortWritePort DEF InputInv
<1>7. ASSUME NEW c \in Clients, Record(c)
      PROVE  InputInv'
  BY <1>1, <1>7, RecordShape, RecordPort DEF InputInv
<1>8. ASSUME NEW c \in Clients, Show(c)
      PROVE  InputInv'
  <2>1. UNCHANGED <<scenario, units, age, pc, written, writer, wire, history, calm>>
    BY <1>8 DEF Show, inVars, portVars
  <2> QED
    BY <1>1, <1>8, <2>1, ShowShape, OutputPort DEF InputInv
<1>9. CASE Tick
  BY <1>1, <1>9, TickShape, TickPort DEF InputInv
<1>10. CASE UNCHANGED vars
  <2>1. /\ UNCHANGED <<scenario, got, decoder, reply, units, age, pc, written>>
        /\ UNCHANGED <<writer, wire, history, toClient, shown, calm>>
    BY <1>10 DEF vars, inVars, portVars, outVars
  <2>2. Shape'
    BY <1>1, <2>1 DEF Shape, EscapeDelay, Input
  <2>3. Busy'
    BY <1>1, <2>1 DEF Busy
  <2> QED
    BY <2>1, <2>2, <2>3, OutputPort DEF InputInv
<1> QED
  BY <1>2, <1>3, <1>4, <1>5, <1>6, <1>7, <1>8, <1>9, <1>10 DEF Next

LEMMA Invariance == Spec => []InputInv
BY InitInv, StepInv, PTL DEF Spec, Safety

-----------------------------------------------------------------------------
(* The conversation with each Telnet client.                               *)

Talk(c) ==
  TalkIs(Consumed(c), decoder[c], reply[c], pc[c], toClient[c], scenario.output, shown[c])

TalkInv == \A c \in Clients : Is(c, "telnet") => Talk(c)

LEMMA ConsumedTyped ==
  ASSUME Shape, NEW c \in Clients
  PROVE  Consumed(c) \in Seq(Byte)
<1>1. PICK w \in Seq(Byte), m \in Nat : w = Input(c) /\ m = got[c] /\ m <= Len(w) /\ Len(w) \in Nat
  BY ScenarioTyped, LenProperties DEF Shape
<1>2. \A k \in 1..m : w[k] \in Byte
  BY <1>1, ElementOfSeq
<1>3. SubSeq(w, 1, m) \in Seq(Byte)
  BY <1>1, <1>2, SubSeqProperties
<1> QED
  BY <1>1, <1>3 DEF Consumed

LEMMA ConsumedGrows ==
  ASSUME Shape, NEW c \in Clients, NEW n \in 1..(Len(Input(c)) - got[c]), Read(c, n)
  PROVE  \E bytes \in Seq(Byte) : /\ bytes = SubSeq(Input(c), got[c] + 1, got[c] + n)
                                  /\ Consumed(c)' = Consumed(c) \o bytes
<1>1. PICK w \in Seq(Byte), m \in Nat : w = Input(c) /\ m = got[c] /\ m <= Len(w) /\ Len(w) \in Nat
  BY ScenarioTyped, LenProperties DEF Shape
<1>2. n \in Nat /\ m + n \in Nat /\ m + n <= Len(w) /\ m + 1 \in Nat /\ m + 1 >= 1 /\ m <= m + n
  BY <1>1
<1>3. \A k \in (m + 1)..(m + n) : w[k] \in Byte
  BY <1>1, <1>2, ElementOfSeq
<1>4. SubSeq(w, m + 1, m + n) \in Seq(Byte)
  BY <1>1, <1>2, <1>3, SubSeqProperties
<1>5. SubSeq(w, 1, m) \o SubSeq(w, m + 1, m + n) = SubSeq(w, 1, m + n)
  <2>1. 1 \in 1..(Len(w) + 1) /\ m \in (1 - 1)..Len(w) /\ m + n \in m..Len(w)
    BY <1>1, <1>2
  <2> QED
    BY <1>1, <2>1, ConcatAdjacentSubSeq
<1>6. Input(c)' = w /\ got'[c] = m + n
  BY <1>1 DEF Read, Shape, Input
<1>7. Consumed(c)' = SubSeq(w, 1, m + n)
  BY <1>6 DEF Consumed
<1> QED
  BY <1>1, <1>4, <1>5, <1>7, Zenon DEF Consumed

\* Only the steps of the client itself concern its conversation.
LEMMA TalkElsewhere ==
  ASSUME TalkInv, NEW c \in Clients, scenario' = scenario,
         \A k \in Clients \ {c} :
           /\ got'[k] = got[k] /\ decoder'[k] = decoder[k] /\ reply'[k] = reply[k]
           /\ pc'[k] = pc[k] /\ toClient'[k] = toClient[k] /\ shown'[k] = shown[k],
         Is(c, "telnet") => Talk(c)'
  PROVE  TalkInv'
<1> SUFFICES ASSUME NEW k \in Clients, Is(k, "telnet"), k # c
             PROVE  Talk(k)'
  <2>1. \A k \in Clients : Is(k, "telnet")' <=> Is(k, "telnet")
    BY DEF Is
  <2> QED
    BY <2>1 DEF TalkInv
<1>1. Talk(k)
  BY DEF TalkInv
<1>2. Consumed(k)' = Consumed(k)
  BY DEF Consumed, Input
<1> QED
  BY <1>1, <1>2 DEF Talk

LEMMA InitTalk == Shape /\ Init => TalkInv
<1> SUFFICES ASSUME Shape, Init, NEW c \in Clients, Is(c, "telnet")
             PROVE  Talk(c)
  BY DEF TalkInv
<1>1. /\ got[c] = 0 /\ decoder[c] = NewDecoder /\ reply[c] = <<>> /\ pc[c] = "reading"
      /\ toClient[c] = Greeting /\ shown[c] = 0
  BY DEF Init
<1>2. Consumed(c) = <<>>
  BY <1>1, SubSeqEmpty DEF Consumed
<1>3. scenario.output \in Seq(Seq(Byte))
  BY ScenarioTyped
<1>4. TalkIs(<<>>, NewDecoder, <<>>, "reading", Greeting, scenario.output, 0)
  BY <1>3, TalkBegins, Zenon
<1> QED
  BY <1>1, <1>2, <1>4, Zenon DEF Talk

LEMMA ReadTalk ==
  ASSUME Shape, TalkInv, NEW c \in Clients, NEW n \in 1..(Len(Input(c)) - got[c]), Read(c, n)
  PROVE  TalkInv'
<1>1. PICK input \in Seq(Byte) : /\ input = SubSeq(Input(c), got[c] + 1, got[c] + n)
                                 /\ Consumed(c)' = Consumed(c) \o input
  BY ConsumedGrows
<1>2. PICK d \in Decodings : d = Decoded(c, input)
  BY DecodedTyped
<1>3. PICK cuts : cuts = Units(c, Unpadded(c, d.data))
  OBVIOUS
<1>4. /\ pc[c] = "reading"
      /\ decoder' = [decoder EXCEPT ![c] = [state |-> d.state, command |-> d.command]]
      /\ reply' = [reply EXCEPT ![c] = d.reply]
      /\ pc' = [pc EXCEPT ![c] = CASE d.reply # <<>> -> "replying"
                                   [] d.reply = <<>> /\ cuts # <<>> -> "writing"
                                   [] d.reply = <<>> /\ cuts = <<>> -> "reading"]
      /\ got' = [got EXCEPT ![c] = @ + n]
      /\ UNCHANGED <<scenario, toClient, shown>>
  BY <1>1, <1>2, <1>3, Zenon DEF Read, outVars
<1>5. PICK place : pc' = [pc EXCEPT ![c] = place] /\ place # "left" /\ (place # "replying" => d.reply = <<>>)
  BY <1>4
<1>6. ASSUME Is(c, "telnet")
      PROVE  Talk(c)'
  <2>1. Talk(c)
    BY <1>6 DEF TalkInv
  <2>2. decoder[c] \in Decoders /\ toClient[c] \in Seq(Byte) /\ d = Decode(decoder[c], input)
    BY <1>2, <1>6 DEF Decoded, Shape
  <2>3. Consumed(c) \in Seq(Byte)
    BY ConsumedTyped
  <2>4. TalkIs(Consumed(c), decoder[c], reply[c], "reading", toClient[c], scenario.output, shown[c])
    BY <1>4, <2>1 DEF Talk
  <2>5. TalkIs(Consumed(c) \o input, [state |-> d.state, command |-> d.command], d.reply, place,
               toClient[c], scenario.output, shown[c])
    BY <1>1, <1>2, <1>5, <2>2, <2>3, <2>4, TalkReads
  <2>6. /\ decoder'[c] = [state |-> d.state, command |-> d.command] /\ reply'[c] = d.reply /\ pc'[c] = place
        /\ toClient'[c] = toClient[c] /\ scenario'.output = scenario.output /\ shown'[c] = shown[c]
    BY <1>4, <1>5 DEF Shape
  <2> QED
    BY <1>1, <2>5, <2>6 DEF Talk
<1>7. \A k \in Clients \ {c} :
        /\ got'[k] = got[k] /\ decoder'[k] = decoder[k] /\ reply'[k] = reply[k]
        /\ pc'[k] = pc[k] /\ toClient'[k] = toClient[k] /\ shown'[k] = shown[k]
  BY <1>4, <1>5 DEF Shape
<1> QED
  BY <1>4, <1>6, <1>7, TalkElsewhere

LEMMA ReplyTalk ==
  ASSUME Shape, TalkInv, NEW c \in Clients, Reply(c)
  PROVE  TalkInv'
<1>1. /\ pc[c] = "replying"
      /\ toClient' = [toClient EXCEPT ![c] = @ \o reply[c]]
      /\ reply' = [reply EXCEPT ![c] = <<>>]
      /\ UNCHANGED <<scenario, got, decoder, shown>>
  BY DEF Reply
<1>2. PICK place \in {"reading", "writing"} : pc' = [pc EXCEPT ![c] = place]
  BY DEF Reply
<1>3. ASSUME Is(c, "telnet")
      PROVE  Talk(c)'
  <2>1. TalkIs(Consumed(c), decoder[c], reply[c], "replying", toClient[c], scenario.output, shown[c])
    BY <1>1, <1>3 DEF TalkInv, Talk
  <2>2. Consumed(c) \in Seq(Byte) /\ reply[c] \in Seq(Byte) /\ toClient[c] \in Seq(Byte)
    BY ConsumedTyped DEF Shape
  <2>3. TalkIs(Consumed(c), decoder[c], <<>>, place, toClient[c] \o reply[c], scenario.output, shown[c])
    BY <1>2, <2>1, <2>2, TalkReplies
  <2>4. Consumed(c)' = Consumed(c)
    BY <1>1 DEF Consumed, Input
  <2>5. /\ decoder'[c] = decoder[c] /\ reply'[c] = <<>> /\ pc'[c] = place
        /\ toClient'[c] = toClient[c] \o reply[c] /\ scenario'.output = scenario.output /\ shown'[c] = shown[c]
    BY <1>1, <1>2 DEF Shape
  <2> QED
    BY <2>3, <2>4, <2>5 DEF Talk
<1>4. \A k \in Clients \ {c} :
        /\ got'[k] = got[k] /\ decoder'[k] = decoder[k] /\ reply'[k] = reply[k]
        /\ pc'[k] = pc[k] /\ toClient'[k] = toClient[k] /\ shown'[k] = shown[k]
  BY <1>1, <1>2 DEF Shape
<1> QED
  BY <1>1, <1>3, <1>4, TalkElsewhere

\* A handler ends when a read, a write of the answer or port.Write fails.
LEMMA GoneTalk ==
  ASSUME Shape, TalkInv, NEW c \in Clients, pc[c] # "left", Gone(c),
         UNCHANGED <<scenario, got, decoder, toClient, shown>>
  PROVE  TalkInv'
<1>1. pc' = [pc EXCEPT ![c] = "left"] /\ reply' = [reply EXCEPT ![c] = <<>>]
  BY DEF Gone
<1>2. ASSUME Is(c, "telnet")
      PROVE  Talk(c)'
  <2>1. TalkIs(Consumed(c), decoder[c], reply[c], pc[c], toClient[c], scenario.output, shown[c])
    BY <1>2 DEF TalkInv, Talk
  <2>2. Consumed(c) \in Seq(Byte) /\ reply[c] \in Seq(Byte) /\ toClient[c] \in Seq(Byte)
    BY ConsumedTyped DEF Shape
  <2>3. TalkIs(Consumed(c), decoder[c], <<>>, "left", toClient[c], scenario.output, shown[c])
    BY <2>1, <2>2, TalkEnds
  <2>4. Consumed(c)' = Consumed(c) /\ pc'[c] = "left" /\ reply'[c] = <<>>
    BY <1>1 DEF Consumed, Input, Shape
  <2> QED
    BY <2>3, <2>4 DEF Talk
<1>3. \A k \in Clients \ {c} : reply'[k] = reply[k] /\ pc'[k] = pc[k]
  BY <1>1 DEF Shape
<1> QED
  BY <1>2, <1>3, TalkElsewhere

\* To lock writeMu, to write to the port and to record is no part of it.
LEMMA PortTalk ==
  ASSUME Shape, TalkInv, NEW c \in Clients, pc[c] \notin {"replying", "left"},
         NEW place, place # "left", pc' = [pc EXCEPT ![c] = place],
         UNCHANGED <<scenario, got, decoder, reply, toClient, shown>>
  PROVE  TalkInv'
<1>1. ASSUME Is(c, "telnet")
      PROVE  Talk(c)'
  <2>1. TalkIs(Consumed(c), decoder[c], reply[c], pc[c], toClient[c], scenario.output, shown[c])
    BY <1>1 DEF TalkInv, Talk
  <2>2. TalkIs(Consumed(c), decoder[c], reply[c], place, toClient[c], scenario.output, shown[c])
    BY <2>1, TalkGoesOn, Zenon
  <2>3. Consumed(c)' = Consumed(c) /\ pc'[c] = place
    BY DEF Consumed, Input, Shape
  <2> QED
    BY <2>2, <2>3 DEF Talk
<1>2. \A k \in Clients \ {c} : pc'[k] = pc[k]
  BY DEF Shape
<1> QED
  BY <1>1, <1>2, TalkElsewhere

LEMMA RecordTalk ==
  ASSUME Shape, TalkInv, NEW c \in Clients, Record(c)
  PROVE  TalkInv'
<1>1. pc[c] = "record" /\ UNCHANGED <<scenario, got, decoder, toClient, shown>>
  BY DEF Record, outVars
<1>2. CASE written[c] = Len(Head(units[c]).data)
  <2>1. reply' = reply /\ \E place : place # "left" /\ pc' = [pc EXCEPT ![c] = place]
    BY <1>2 DEF Record
  <2> QED
    BY <1>1, <2>1, PortTalk
<1>3. CASE written[c] # Len(Head(units[c]).data)
  BY <1>1, <1>3, GoneTalk DEF Record
<1> QED
  BY <1>2, <1>3

LEMMA ShowTalk ==
  ASSUME Shape, TalkInv, NEW c \in Clients, Show(c)
  PROVE  TalkInv'
<1>1. PICK out \in Seq(Seq(Byte)), n \in Nat : out = scenario.output /\ n = shown[c] /\ n < Len(out)
  <2>1. scenario.output \in Seq(Seq(Byte)) /\ Len(scenario.output) \in Nat
    BY ScenarioTyped, LenProperties
  <2> QED
    BY <2>1 DEF Show, Shape
<1>2. /\ Is(c, "telnet") /\ pc[c] # "left"
      /\ shown' = [shown EXCEPT ![c] = @ + 1]
      /\ toClient' = [toClient EXCEPT ![c] = @ \o Encode(out[shown'[c]])]
      /\ UNCHANGED <<scenario, got, decoder, reply, pc>>
  BY <1>1 DEF Show, inVars
<1>3. Talk(c)'
  <2>1. TalkIs(Consumed(c), decoder[c], reply[c], pc[c], toClient[c], out, n)
    BY <1>1, <1>2 DEF TalkInv, Talk
  <2>2. Consumed(c) \in Seq(Byte) /\ reply[c] \in Seq(Byte) /\ toClient[c] \in Seq(Byte)
    BY ConsumedTyped DEF Shape
  <2>3. TalkIs(Consumed(c), decoder[c], reply[c], pc[c], toClient[c] \o Encode(out[n + 1]), out, n + 1)
    BY <1>1, <1>2, <2>1, <2>2, TalkShows
  <2>4. Consumed(c)' = Consumed(c)
    BY <1>2 DEF Consumed, Input
  <2>5. shown'[c] = n + 1
    BY <1>1, <1>2 DEF Shape
  <2>6. toClient'[c] = toClient[c] \o Encode(out[n + 1])
    BY <1>2, <2>5 DEF Shape
  <2> QED
    BY <1>1, <1>2, <2>3, <2>4, <2>5, <2>6 DEF Talk
<1>4. \A k \in Clients \ {c} : toClient'[k] = toClient[k] /\ shown'[k] = shown[k]
  BY <1>2 DEF Shape
<1> QED
  BY <1>2, <1>3, <1>4, TalkElsewhere

LEMMA StepTalk == InputInv /\ TalkInv /\ [Next]_vars => TalkInv'
<1> SUFFICES ASSUME InputInv, TalkInv, [Next]_vars
             PROVE  TalkInv'
  OBVIOUS
<1>1. Shape
  BY DEF InputInv
<1>2. ASSUME NEW c \in Clients, ReadSome(c)
      PROVE  TalkInv'
  <2>1. PICK n \in 1..(Len(Input(c)) - got[c]) : Read(c, n)
    BY <1>2 DEF ReadSome
  <2> QED
    BY <1>1, <2>1, ReadTalk
<1>3. ASSUME NEW c \in Clients, Reply(c)
      PROVE  TalkInv'
  BY <1>1, <1>3, ReplyTalk
<1>4. ASSUME NEW c \in Clients, Leave(c)
      PROVE  TalkInv'
  <2>1. pc[c] # "left" /\ Gone(c) /\ UNCHANGED <<scenario, got, decoder, toClient, shown>>
    BY <1>4 DEF Leave, outVars
  <2> QED
    BY <1>1, <2>1, GoneTalk
<1>5. ASSUME NEW c \in Clients, LockWrite(c) \/ PortWrite(c)
      PROVE  TalkInv'
  <2>1. /\ pc[c] \notin {"replying", "left"}
        /\ \E place : place # "left" /\ pc' = [pc EXCEPT ![c] = place]
        /\ UNCHANGED <<scenario, got, decoder, reply, toClient, shown>>
    BY <1>5 DEF LockWrite, PortWrite, outVars
  <2> QED
    BY <1>1, <2>1, PortTalk
<1>6. ASSUME NEW c \in Clients, Record(c)
      PROVE  TalkInv'
  BY <1>1, <1>6, RecordTalk
<1>7. ASSUME NEW c \in Clients, Show(c)
      PROVE  TalkInv'
  BY <1>1, <1>7, ShowTalk
<1>8. CASE Tick \/ UNCHANGED vars
  <2>1. UNCHANGED <<scenario, got, decoder, reply, pc, toClient, shown>>
    BY <1>8 DEF Tick, vars, inVars, outVars
  <2> QED
    BY <2>1 DEF TalkInv, Talk, Is, Consumed, Input
<1> QED
  BY <1>2, <1>3, <1>4, <1>5, <1>6, <1>7, <1>8 DEF Next

LEMMA TalkInvariance == Spec => []TalkInv
<1>1. Init => TalkInv
  BY InitShape, InitTalk
<1> QED
  BY <1>1, StepTalk, Invariance, PTL DEF Spec, Safety

-----------------------------------------------------------------------------
(* What pads line ends, byte by byte.                                      *)

\* f holds what is kept of the first 0, 1, ..., n bytes.
LineEndsFrom(f, padding, data, n) ==
  f = [i \in 0..n |-> IF i = 0 THEN <<>> ELSE Padded(padding, f[i - 1], data[i])]

LEMMA LineEndsRun ==
  ASSUME NEW padding, NEW data \in Seq(Byte)
  PROVE  \E f : LineEndsFrom(f, padding, data, Len(data)) /\ UpToLineEnds(padding, data) = f[Len(data)]
<1>1. PICK n \in Nat : n = Len(data)
  BY LenProperties
<1>2. \E f : LineEndsFrom(f, padding, data, n)
  <2> DEFINE S == {m \in Nat : \E f : LineEndsFrom(f, padding, data, m)}
  <2>1. 0 \in S
    <3>1. LineEndsFrom([i \in 0..0 |-> <<>>], padding, data, 0)
      BY DEF LineEndsFrom
    <3> QED
      BY <3>1
  <2>2. ASSUME NEW m \in Nat, m \in S
        PROVE  m + 1 \in S
    <3>1. PICK f : f = [i \in 0..m |-> IF i = 0 THEN <<>> ELSE Padded(padding, f[i - 1], data[i])]
      BY <2>2 DEF LineEndsFrom
    <3>2. PICK g : g = [i \in 0..(m + 1) |-> IF i = m + 1 THEN Padded(padding, f[m], data[i]) ELSE f[i]]
      OBVIOUS
    <3>3. ASSUME NEW i \in 0..(m + 1)
          PROVE  g[i] = IF i = 0 THEN <<>> ELSE Padded(padding, g[i - 1], data[i])
      <4>1. CASE i = m + 1
        <5>1. g[i] = Padded(padding, f[m], data[i]) /\ g[m] = f[m] /\ i - 1 = m /\ i # 0
          BY <3>2, <4>1
        <5> QED
          BY <5>1, Zenon
      <4>2. CASE i # m + 1
        <5>1. i \in 0..m /\ g[i] = f[i] /\ (i # 0 => g[i - 1] = f[i - 1])
          BY <3>2, <4>2
        <5>2. f[i] = IF i = 0 THEN <<>> ELSE Padded(padding, f[i - 1], data[i])
          BY <3>1, <5>1, Zenon
        <5> QED
          BY <5>1, <5>2, Zenon
      <4> QED
        BY <4>1, <4>2
    <3>4. LineEndsFrom(g, padding, data, m + 1)
      BY <3>2, <3>3, Zenon DEF LineEndsFrom
    <3> QED
      BY <3>4
  <2>3. Nat \subseteq S
    <3> HIDE DEF S
    <3> QED
      BY <2>1, <2>2, NatSetInduction
  <2> QED
    BY <2>3
<1>3. PICK f : f = CHOOSE g : LineEndsFrom(g, padding, data, n)
  OBVIOUS
<1>4. UpToLineEnds(padding, data) = f[n]
  BY <1>1, <1>3, Zenon DEF UpToLineEnds, LineEndsFrom
<1>5. LineEndsFrom(f, padding, data, n)
  BY <1>2, <1>3, Zenon
<1> QED
  BY <1>1, <1>4, <1>5, Zenon

LEMMA PaddedTyped ==
  ASSUME NEW padding, NEW kept \in Seq(Byte), NEW b \in Byte
  PROVE  Padded(padding, kept, b) \in Seq(Byte)
BY AppendProperties DEF Padded

LEMMA LineEndsTyped ==
  ASSUME NEW padding, NEW data \in Seq(Byte)
  PROVE  UpToLineEnds(padding, data) \in Seq(Byte)
<1>1. PICK f : LineEndsFrom(f, padding, data, Len(data)) /\ UpToLineEnds(padding, data) = f[Len(data)]
  BY LineEndsRun
<1>2. PICK n \in Nat : n = Len(data)
  BY LenProperties
<1>3. \A i \in 0..n : f[i] = IF i = 0 THEN <<>> ELSE Padded(padding, f[i - 1], data[i])
  BY <1>1, <1>2 DEF LineEndsFrom
<1> DEFINE S == {i \in Nat : i \in 0..n => f[i] \in Seq(Byte)}
<1>4. 0 \in S
  BY <1>3, EmptySeq
<1>5. ASSUME NEW i \in Nat, i \in S
      PROVE  i + 1 \in S
  <2> SUFFICES ASSUME i + 1 \in 0..n
               PROVE  f[i + 1] \in Seq(Byte)
    OBVIOUS
  <2>1. f[i] \in Seq(Byte) /\ data[i + 1] \in Byte
    BY <1>2, <1>5, ElementOfSeq
  <2>2. f[i + 1] = Padded(padding, f[i], data[i + 1])
    <3>1. i + 1 # 0 /\ (i + 1) - 1 = i
      OBVIOUS
    <3> QED
      BY <1>3, <3>1
  <2> QED
    BY <2>1, <2>2, PaddedTyped, Zenon
<1>6. Nat \subseteq S
  <2> HIDE DEF S
  <2> QED
    BY <1>4, <1>5, NatSetInduction
<1> QED
  BY <1>1, <1>2, <1>6

LEMMA LineEndsOfNothing ==
  ASSUME NEW padding
  PROVE  UpToLineEnds(padding, <<>>) = <<>>
<1>1. PICK data \in Seq(Byte) : data = <<>> /\ Len(data) = 0
  BY EmptySeq
<1>2. PICK f : LineEndsFrom(f, padding, data, 0) /\ UpToLineEnds(padding, data) = f[0]
  BY <1>1, LineEndsRun, Zenon
<1>3. f[0] = <<>>
  BY <1>2 DEF LineEndsFrom
<1> QED
  BY <1>1, <1>2, <1>3, Zenon

LEMMA LineEndsAppend ==
  ASSUME NEW padding, NEW data \in Seq(Byte), NEW b \in Byte, NEW more, more = Append(data, b)
  PROVE  UpToLineEnds(padding, more) = Padded(padding, UpToLineEnds(padding, data), b)
<1>1. PICK n \in Nat : n = Len(data)
  BY LenProperties
<1>2. /\ more \in Seq(Byte) /\ Len(more) = n + 1
      /\ \A i \in 1..n : more[i] = data[i]
      /\ more[n + 1] = b
  BY <1>1, AppendProperties
<1>3. PICK f : LineEndsFrom(f, padding, data, n) /\ UpToLineEnds(padding, data) = f[n]
  BY <1>1, LineEndsRun, Zenon
<1>4. PICK g : LineEndsFrom(g, padding, more, Len(more)) /\ UpToLineEnds(padding, more) = g[Len(more)]
  BY <1>2, LineEndsRun, Zenon
<1>5. \A i \in 0..n : f[i] = IF i = 0 THEN <<>> ELSE Padded(padding, f[i - 1], data[i])
  BY <1>3 DEF LineEndsFrom
<1>6. \A i \in 0..(n + 1) : g[i] = IF i = 0 THEN <<>> ELSE Padded(padding, g[i - 1], more[i])
  BY <1>2, <1>4 DEF LineEndsFrom
<1> DEFINE S == {i \in Nat : i \in 0..n => f[i] = g[i]}
<1>7. 0 \in S
  BY <1>5, <1>6
<1>8. ASSUME NEW i \in Nat, i \in S
      PROVE  i + 1 \in S
  <2> SUFFICES ASSUME i + 1 \in 0..n
               PROVE  f[i + 1] = g[i + 1]
    OBVIOUS
  <2>1. /\ i + 1 # 0 /\ (i + 1) - 1 = i /\ i + 1 \in 1..n /\ i + 1 \in 0..(n + 1)
        /\ f[i] = g[i]
    BY <1>8
  <2>2. f[i + 1] = Padded(padding, f[i], data[i + 1])
    BY <1>5, <2>1
  <2>3. g[i + 1] = Padded(padding, g[i], more[i + 1])
    BY <1>6, <2>1
  <2> QED
    BY <1>2, <2>1, <2>2, <2>3, Zenon
<1>9. Nat \subseteq S
  <2> HIDE DEF S
  <2> QED
    BY <1>7, <1>8, NatSetInduction
<1>10. f[n] = g[n]
  BY <1>9
<1>11. g[n + 1] = Padded(padding, g[n], b)
  <2>1. n + 1 \in 0..(n + 1) /\ n + 1 # 0 /\ (n + 1) - 1 = n
    OBVIOUS
  <2> QED
    BY <1>2, <1>6, <2>1
<1> QED
  BY <1>2, <1>3, <1>4, <1>10, <1>11, Zenon

LEMMA LineEndsNext ==
  ASSUME NEW padding
  PROVE  \A s \in Seq(Byte), b \in Byte :
           UpToLineEnds(padding, Append(s, b)) = Padded(padding, UpToLineEnds(padding, s), b)
BY LineEndsAppend, ZenonT(60)

\* The first i bytes, with one more.
LEMMA OneByteMore ==
  ASSUME NEW data \in Seq(Byte), NEW i \in Nat, i + 1 <= Len(data)
  PROVE  /\ SubSeq(data, 1, i) \in Seq(Byte)
         /\ SubSeq(data, 1, i + 1) \in Seq(Byte)
         /\ data[i + 1] \in Byte
         /\ SubSeq(data, 1, i + 1) = Append(SubSeq(data, 1, i), data[i + 1])
<1>1. PICK n \in Nat : n = Len(data)
  BY LenProperties
<1>2. \A k \in 1..(i + 1) : data[k] \in Byte
  BY <1>1, ElementOfSeq
<1>3. SubSeq(data, 1, i) \in Seq(Byte) /\ SubSeq(data, 1, i + 1) \in Seq(Byte) /\ data[i + 1] \in Byte
  BY <1>2, SubSeqProperties
<1>4. 1 \in 1..Len(data) /\ i + 1 \in 1..Len(data) /\ (i + 1) - 1 = i
  BY <1>1
<1>5. SubSeq(data, 1, i + 1) = SubSeq(data, 1, (i + 1) - 1) \o <<data[i + 1]>>
  BY <1>4, SubSeqRecursiveSecond
<1> QED
  BY <1>3, <1>4, <1>5, AppendIsConcat

LEMMA JoinOneMore ==
  ASSUME NEW s \in Seq(Byte), NEW x \in Seq(Byte), NEW i \in Nat, i + 1 <= Len(x)
  PROVE  \E a \in Seq(Byte), e \in Byte :
           /\ a = s \o SubSeq(x, 1, i) /\ e = x[i + 1]
           /\ s \o SubSeq(x, 1, i + 1) = Append(a, e)
<1>1. PICK a \in Seq(Byte), b \in Byte : a = SubSeq(x, 1, i) /\ b = x[i + 1] /\ SubSeq(x, 1, i + 1) = Append(a, b)
  BY OneByteMore
<1>2. Append(a, b) = a \o <<b>> /\ Append(s \o a, b) = (s \o a) \o <<b>>
  BY AppendIsConcat, ConcatProperties
<1>3. (s \o a) \o <<b>> = s \o (a \o <<b>>)
  BY ConcatAssociative, SMTT(30)
<1>4. PICK d \in Seq(Byte) : d = s \o a
  BY ConcatProperties
<1> QED
  BY <1>1, <1>2, <1>3, <1>4, Zenon

LEMMA WholeOf ==
  ASSUME NEW x \in Seq(Byte)
  PROVE  SubSeq(x, 1, 0) = <<>> /\ SubSeq(x, 1, Len(x)) = x
BY SubSeqEmpty, SubSeqFull

\* What is alike so far stays alike.
LEMMA SameGoesOn ==
  ASSUME NEW padding, NEW s \in Seq(Byte), NEW t \in Seq(Byte), NEW x \in Seq(Byte),
         UpToLineEnds(padding, s) = UpToLineEnds(padding, t)
  PROVE  UpToLineEnds(padding, s \o x) = UpToLineEnds(padding, t \o x)
<1>1. PICK n \in Nat : n = Len(x)
  BY LenProperties
<1> DEFINE S == {i \in Nat : i <= n => UpToLineEnds(padding, s \o SubSeq(x, 1, i))
                                         = UpToLineEnds(padding, t \o SubSeq(x, 1, i))}
<1>2. 0 \in S
  <2>1. s \o <<>> = s /\ t \o <<>> = t
    BY ConcatEmptySeq
  <2> QED
    BY <2>1, WholeOf, Zenon
<1>3. ASSUME NEW i \in Nat, i \in S
      PROVE  i + 1 \in S
  <2> SUFFICES ASSUME i + 1 <= n
               PROVE  UpToLineEnds(padding, s \o SubSeq(x, 1, i + 1))
                        = UpToLineEnds(padding, t \o SubSeq(x, 1, i + 1))
    OBVIOUS
  <2>1. i + 1 <= Len(x) /\ i <= n
    BY <1>1
  <2>2. PICK a \in Seq(Byte), e \in Byte :
          a = s \o SubSeq(x, 1, i) /\ e = x[i + 1] /\ s \o SubSeq(x, 1, i + 1) = Append(a, e)
    BY <1>3, <2>1, JoinOneMore, Zenon
  <2>3. PICK b \in Seq(Byte), d \in Byte :
          b = t \o SubSeq(x, 1, i) /\ d = x[i + 1] /\ t \o SubSeq(x, 1, i + 1) = Append(b, d)
    BY <1>3, <2>1, JoinOneMore, Zenon
  <2>4. UpToLineEnds(padding, a) = UpToLineEnds(padding, b) /\ d = e
    BY <1>3, <2>1, <2>2, <2>3
  <2>5. PICK more, last : more = Append(a, e) /\ last = Append(b, d)
    OBVIOUS
  <2>6. /\ UpToLineEnds(padding, more) = Padded(padding, UpToLineEnds(padding, a), e)
        /\ UpToLineEnds(padding, last) = Padded(padding, UpToLineEnds(padding, b), d)
    <3>1. \A u \in Seq(Byte), b1 \in Byte :
            UpToLineEnds(padding, Append(u, b1)) = Padded(padding, UpToLineEnds(padding, u), b1)
      BY LineEndsNext, Zenon
    <3> QED
      BY <2>5, <3>1
  <2> QED
    BY <2>2, <2>3, <2>4, <2>5, <2>6, Zenon
<1>4. Nat \subseteq S
  <2> HIDE DEF S
  <2> QED
    BY <1>2, <1>3, NatSetInduction
<1>5. n \in S
  <2> HIDE DEF S
  <2> QED
    BY <1>4
<1>6. UpToLineEnds(padding, s \o SubSeq(x, 1, n)) = UpToLineEnds(padding, t \o SubSeq(x, 1, n))
  BY <1>5
<1>7. SubSeq(x, 1, n) = x
  BY <1>1, WholeOf, Zenon
<1> QED
  BY <1>6, <1>7, Zenon

LEMMA LineEndsBeginStep ==
  ASSUME NEW padding, NEW a \in Seq(Byte), NEW e \in Byte, NEW more, more = Append(a, e),
         NEW u \in Seq(Byte), NEW v \in Seq(Byte), Joins(UpToLineEnds(padding, a), u, v)
  PROVE  \E w \in Seq(Byte) : Joins(UpToLineEnds(padding, more), u, w)
<1>1. UpToLineEnds(padding, more) = Padded(padding, UpToLineEnds(padding, a), e)
  BY LineEndsAppend, ZenonT(60)
<1>2. PICK w \in Seq(Byte) : w = u \o v
  BY ConcatProperties
<1>3. Append(w, e) = u \o Append(v, e) /\ Append(v, e) \in Seq(Byte)
  <2>1. Append(w, e) = w \o <<e>> /\ Append(v, e) = v \o <<e>> /\ Append(v, e) \in Seq(Byte)
    BY AppendIsConcat, AppendProperties
  <2>2. (u \o v) \o <<e>> = u \o (v \o <<e>>)
    BY ConcatAssociative, SMTT(30)
  <2> QED
    BY <1>2, <2>1, <2>2, Zenon
<1>4. Padded(padding, w, e) = w \/ Padded(padding, w, e) = Append(w, e)
  BY Zenon DEF Padded
<1> QED
  BY <1>1, <1>2, <1>3, <1>4, Zenon DEF Joins

\* A row without what pads its line ends is a beginning of what it goes on to.
LEMMA LineEndsBegin ==
  ASSUME NEW padding, NEW s \in Seq(Byte), NEW x \in Seq(Byte)
  PROVE  IsPrefix(UpToLineEnds(padding, s), UpToLineEnds(padding, s \o x))
<1>1. PICK n \in Nat : n = Len(x)
  BY LenProperties
<1>2. PICK u \in Seq(Byte) : u = UpToLineEnds(padding, s)
  BY LineEndsTyped
<1> DEFINE S == {i \in Nat : i <= n =>
                    \E v \in Seq(Byte) : UpToLineEnds(padding, s \o SubSeq(x, 1, i)) = u \o v}
<1>3. 0 \in S
  <2>1. s \o <<>> = s /\ u \o <<>> = u /\ <<>> \in Seq(Byte)
    BY ConcatEmptySeq, EmptySeq
  <2>2. UpToLineEnds(padding, s \o SubSeq(x, 1, 0)) = u \o <<>>
    BY <1>2, <2>1, WholeOf, Zenon
  <2> QED
    BY <2>1, <2>2
<1>4. ASSUME NEW i \in Nat, i \in S
      PROVE  i + 1 \in S
  <2>0. i + 1 \in Nat
    OBVIOUS
  <2> SUFFICES ASSUME i + 1 <= n
               PROVE  \E v \in Seq(Byte) : UpToLineEnds(padding, s \o SubSeq(x, 1, i + 1)) = u \o v
    BY <2>0, Zenon
  <2>1. i + 1 <= Len(x) /\ i <= n
    BY <1>1
  <2>2. PICK a \in Seq(Byte), e \in Byte :
          a = s \o SubSeq(x, 1, i) /\ e = x[i + 1] /\ s \o SubSeq(x, 1, i + 1) = Append(a, e)
    BY <1>4, <2>1, JoinOneMore, Zenon
  <2>3. PICK v \in Seq(Byte) : UpToLineEnds(padding, a) = u \o v
    BY <1>4, <2>1, <2>2, Zenon
  <2>4. PICK more : more = Append(a, e)
    OBVIOUS
  <2>5. a \in Seq(Byte) /\ e \in Byte /\ Joins(UpToLineEnds(padding, a), u, v)
    BY <2>2, <2>3 DEF Joins
  <2>6. \E w \in Seq(Byte) : Joins(UpToLineEnds(padding, more), u, w)
    BY <2>3, <2>4, <2>5, LineEndsBeginStep, Zenon
  <2> QED
    BY <2>2, <2>4, <2>6, Zenon DEF Joins
<1>5. Nat \subseteq S
  <2> HIDE DEF S
  <2> QED
    BY <1>3, <1>4, NatSetInduction
<1>6. n \in S
  <2> HIDE DEF S
  <2> QED
    BY <1>5
<1>7. SubSeq(x, 1, n) = x
  BY <1>1, WholeOf, Zenon
<1>8. PICK v \in Seq(Byte) : UpToLineEnds(padding, s \o SubSeq(x, 1, n)) = u \o v
  BY <1>6
<1>9. PICK w : w = u \o v
  OBVIOUS
<1>10. IsPrefix(u, w)
  <2>1. Len(w) = Len(u) + Len(v) /\ Len(u) \in Nat /\ Len(v) \in Nat
    BY <1>9, ConcatProperties, LenProperties
  <2>2. SubSeq(w, 1, Len(u)) = u /\ SubSeq(u, 1, Len(u)) = u
    <3>1. u \o v \in Seq(Byte) /\ SubSeq(u, 1, Len(u)) = u
      BY ConcatProperties, SubSeqFull
    <3>2. PICK l \in Nat : l = Len(u) /\ l <= Len(w)
      BY <2>1
    <3>3. w \in Seq(Byte) /\ \A j \in 1..l : w[j] = u[j] /\ w[j] \in Byte
      BY <1>9, <2>1, <3>1, <3>2, ConcatProperties, ElementOfSeq
    <3>4. PICK y : y = SubSeq(w, 1, l)
      OBVIOUS
    <3>5. y \in Seq(Byte) /\ Len(y) = l /\ \A j \in 1..l : y[j] = w[j]
      BY <3>2, <3>3, <3>4, SubSeqProperties
    <3>6. y = u
      BY <3>2, <3>3, <3>5, SeqEqual
    <3> QED
      BY <3>1, <3>2, <3>4, <3>6
  <2> QED
    BY <2>1, <2>2 DEF IsPrefix
<1> QED
  BY <1>2, <1>7, <1>8, <1>9, <1>10, Zenon

\* Without padding, all is kept.
LEMMA NothingPads ==
  ASSUME NEW s \in Seq(Byte)
  PROVE  UpToLineEnds({}, s) = s
<1>1. PICK n \in Nat : n = Len(s)
  BY LenProperties
<1> DEFINE S == {i \in Nat : i <= n => UpToLineEnds({}, SubSeq(s, 1, i)) = SubSeq(s, 1, i)}
<1>2. 0 \in S
  BY WholeOf, LineEndsOfNothing, Zenon
<1>3. ASSUME NEW i \in Nat, i \in S
      PROVE  i + 1 \in S
  <2> SUFFICES ASSUME i + 1 <= n
               PROVE  UpToLineEnds({}, SubSeq(s, 1, i + 1)) = SubSeq(s, 1, i + 1)
    OBVIOUS
  <2>1. i + 1 <= Len(s) /\ i <= n
    BY <1>1
  <2>2. PICK a \in Seq(Byte), e \in Byte : a = SubSeq(s, 1, i) /\ e = s[i + 1] /\ SubSeq(s, 1, i + 1) = Append(a, e)
    BY <2>1, OneByteMore
  <2>3. UpToLineEnds({}, a) = a
    BY <1>3, <2>1, <2>2
  <2>4. PICK more : more = Append(a, e)
    OBVIOUS
  <2>5. UpToLineEnds({}, more) = Padded({}, a, e)
    <3>1. PICK none : none = {}
      OBVIOUS
    <3>2. UpToLineEnds(none, more) = Padded(none, UpToLineEnds(none, a), e)
      BY <2>4, LineEndsAppend, Zenon
    <3> QED
      BY <2>3, <3>1, <3>2, Zenon
  <2>6. Padded({}, a, e) = Append(a, e)
    BY Zenon DEF Padded
  <2> QED
    BY <2>2, <2>4, <2>5, <2>6, Zenon
<1>4. Nat \subseteq S
  <2> HIDE DEF S
  <2> QED
    BY <1>2, <1>3, NatSetInduction
<1>5. n \in S
  <2> HIDE DEF S
  <2> QED
    BY <1>4
<1>6. UpToLineEnds({}, SubSeq(s, 1, n)) = SubSeq(s, 1, n)
  BY <1>5
<1>7. SubSeq(s, 1, n) = s
  BY <1>1, WholeOf, Zenon
<1> QED
  BY <1>6, <1>7, Zenon

LEMMA MappedTyped ==
  ASSUME NEW X, NEW items \in Seq(X), NEW g \in [X -> Seq(Byte)]
  PROVE  Mapped(g, items) \in Seq(Byte)
<1>1. PICK T : T = Seq(Byte)
  OBVIOUS
<1>2. PICK n \in Nat : n = Len(items) /\ DOMAIN items = 1..n
  BY LenProperties
<1>3. \A i \in 1..n : g[items[i]] \in T
  BY <1>1, <1>2, ElementOfSeq
<1>4. [i \in 1..n |-> g[items[i]]] \in Seq(T)
  BY <1>3
<1>5. [i \in DOMAIN items |-> g[items[i]]] \in Seq(Seq(Byte))
  BY <1>1, <1>2, <1>4
<1> QED
  BY <1>5, FlattenTyped, Zenon DEF Mapped

LEMMA MapEmpty ==
  ASSUME NEW g
  PROVE  Mapped(g, <<>>) = <<>>
<1>1. [i \in DOMAIN <<>> |-> g[<<>>[i]]] = <<>>
  OBVIOUS
<1> QED
  BY <1>1, FlattenEmpty, Zenon DEF Mapped

LEMMA OneIsASeq ==
  ASSUME NEW X, NEW x \in X
  PROVE  <<x>> \in Seq(X)
<1>1. PICK s : s = <<x>>
  OBVIOUS
<1>2. DOMAIN s = 1..1 /\ s = [i \in 1..1 |-> s[i]] /\ \A i \in 1..1 : s[i] \in X
  BY <1>1
<1> QED
  BY <1>1, <1>2, ElementsMakeSeq

LEMMA PrependAppend ==
  ASSUME NEW X, NEW x \in X, NEW a \in Seq(X), NEW e \in X
  PROVE  /\ <<x>> \o a \in Seq(X)
         /\ <<x>> \o Append(a, e) = Append(<<x>> \o a, e)
<1>1. PICK y \in Seq(X) : y = <<x>>
  BY OneIsASeq
<1>2. y \o a \in Seq(X) /\ Append(a, e) = a \o <<e>> /\ Append(y \o a, e) = (y \o a) \o <<e>>
  BY AppendIsConcat, ConcatProperties
<1>3. PICK z \in Seq(X) : z = <<e>>
  BY OneIsASeq
<1>4. (y \o a) \o z = y \o (a \o z)
  BY ConcatAssociative, SMTT(30)
<1> QED
  BY <1>1, <1>2, <1>3, <1>4, Zenon

LEMMA MapPrepend ==
  ASSUME NEW X, NEW items \in Seq(X), NEW x \in X, NEW g \in [X -> Seq(Byte)]
  PROVE  Mapped(g, <<x>> \o items) = g[x] \o Mapped(g, items)
<1>1. PICK n \in Nat : n = Len(items)
  BY LenProperties
<1>2. PICK gx \in Seq(Byte) : gx = g[x]
  OBVIOUS
<1> DEFINE S == {i \in Nat : i <= n => Mapped(g, <<x>> \o SubSeq(items, 1, i)) = gx \o Mapped(g, SubSeq(items, 1, i))}
<1>3. 0 \in S
  <2>1. SubSeq(items, 1, 0) = <<>>
    BY SubSeqEmpty
  <2>2. PICK none \in Seq(X) : none = <<>>
    BY EmptySeq
  <2>3. PICK one : one = <<x>> \o none
    OBVIOUS
  <2>4. one = Append(none, x)
    BY <2>2, <2>3, AppendIsConcat
  <2>5. Mapped(g, one) = Mapped(g, none) \o g[x]
    BY <2>4, MapAppend, Zenon
  <2>6. Mapped(g, none) = <<>>
    BY <2>2, MapEmpty, Zenon
  <2>7. <<>> \o gx = gx /\ gx \o <<>> = gx
    BY ConcatEmptySeq
  <2>8. Mapped(g, <<x>> \o SubSeq(items, 1, 0)) = gx \o Mapped(g, SubSeq(items, 1, 0))
    BY <1>2, <2>1, <2>2, <2>3, <2>5, <2>6, <2>7, Zenon
  <2>9. 0 \in Nat
    OBVIOUS
  <2> QED
    BY <2>8, <2>9, Zenon
<1>4. ASSUME NEW i \in Nat, i \in S
      PROVE  i + 1 \in S
  <2>0. i + 1 \in Nat
    OBVIOUS
  <2> SUFFICES ASSUME i + 1 <= n
               PROVE  Mapped(g, <<x>> \o SubSeq(items, 1, i + 1)) = gx \o Mapped(g, SubSeq(items, 1, i + 1))
    BY <2>0, Zenon
  <2>1. i + 1 <= Len(items) /\ i <= n
    BY <1>1
  <2>2. PICK a \in Seq(X) : a = SubSeq(items, 1, i)
    <3>1. \A k \in 1..i : items[k] \in X
      BY <1>1, <2>1, ElementOfSeq
    <3>2. 1 \in Int /\ i \in Int
      OBVIOUS
    <3>3. SubSeq(items, 1, i) \in Seq(X)
      BY <3>1, <3>2, SubSeqProperties
    <3> QED
      BY <3>3, Zenon
  <2>3. PICK e \in X : e = items[i + 1]
    BY <1>1, <2>1, ElementOfSeq
  <2>4. PICK more : more = SubSeq(items, 1, i + 1)
    OBVIOUS
  <2>5. more = Append(a, e)
    <3>1. 1 \in 1..Len(items) /\ i + 1 \in 1..Len(items) /\ (i + 1) - 1 = i
      BY <1>1, <2>1
    <3>2. SubSeq(items, 1, i + 1) = SubSeq(items, 1, (i + 1) - 1) \o <<items[i + 1]>>
      BY <3>1, SubSeqRecursiveSecond
    <3> QED
      BY <2>2, <2>3, <2>4, <3>1, <3>2, AppendIsConcat
  <2>6. PICK b \in Seq(X) : b = <<x>> \o a
    BY PrependAppend
  <2>7. PICK both : both = <<x>> \o more
    OBVIOUS
  <2>8. both = Append(b, e)
    BY <2>5, <2>6, <2>7, PrependAppend
  <2>9. Mapped(g, both) = Mapped(g, b) \o g[e] /\ Mapped(g, more) = Mapped(g, a) \o g[e]
    BY <2>5, <2>8, MapAppend, Zenon
  <2>10. Mapped(g, b) = gx \o Mapped(g, a)
    BY <1>4, <2>1, <2>2, <2>6
  <2>11. PICK ma \in Seq(Byte), ge \in Seq(Byte) : ma = Mapped(g, a) /\ ge = g[e]
    BY MappedTyped
  <2>12. (gx \o ma) \o ge = gx \o (ma \o ge)
    BY <2>11, ConcatAssociative, SMTT(30)
  <2> QED
    BY <2>4, <2>7, <2>9, <2>10, <2>11, <2>12, Zenon
<1>5. Nat \subseteq S
  <2> HIDE DEF S
  <2> QED
    BY <1>3, <1>4, NatSetInduction
<1>6. n \in S
  <2> HIDE DEF S
  <2> QED
    BY <1>5
<1>7. Mapped(g, <<x>> \o SubSeq(items, 1, n)) = gx \o Mapped(g, SubSeq(items, 1, n))
  <2>1. n <= n
    OBVIOUS
  <2> QED
    BY <1>6, <2>1, Zenon
<1>8. SubSeq(items, 1, n) = items
  BY <1>1, SubSeqFull
<1> QED
  BY <1>2, <1>7, <1>8, Zenon

LEMMA BytesAre ==
  ASSUME NEW us \in Seq(UnitsOfInput)
  PROVE  \E g \in [UnitsOfInput -> Seq(Byte)] :
           /\ \A u \in UnitsOfInput : g[u] = u.data
           /\ \A more \in Seq(UnitsOfInput) : Bytes(more) = Mapped(g, more)
<1>1. PICK g \in [UnitsOfInput -> Seq(Byte)] : g = [u \in UnitsOfInput |-> u.data]
  BY DEF UnitsOfInput
<1>2. \A u \in UnitsOfInput : g[u] = u.data
  BY <1>1
<1>3. ASSUME NEW more \in Seq(UnitsOfInput)
      PROVE  Bytes(more) = Mapped(g, more)
  <2>1. \A i \in DOMAIN more : more[i] \in UnitsOfInput
    BY ElementOfSeq, LenProperties
  <2>2. [i \in DOMAIN more |-> more[i].data] = [i \in DOMAIN more |-> g[more[i]]]
    BY <1>2, <2>1
  <2> QED
    BY <2>2, Zenon DEF Bytes, Mapped
<1> QED
  BY <1>1, <1>2, <1>3, Zenon

LEMMA BytesTyped ==
  ASSUME NEW us \in Seq(UnitsOfInput)
  PROVE  Bytes(us) \in Seq(Byte)
<1>1. PICK g \in [UnitsOfInput -> Seq(Byte)] : Bytes(us) = Mapped(g, us)
  BY BytesAre
<1> QED
  BY <1>1, MappedTyped, Zenon

LEMMA BytesOfNone == Bytes(<<>>) = <<>>
<1>1. [i \in DOMAIN <<>> |-> <<>>[i].data] = <<>>
  OBVIOUS
<1> QED
  BY <1>1, FlattenEmpty, Zenon DEF Bytes

LEMMA BytesPrepend ==
  ASSUME NEW us \in Seq(UnitsOfInput), NEW u \in UnitsOfInput
  PROVE  Bytes(<<u>> \o us) = u.data \o Bytes(us)
<1>1. PICK g \in [UnitsOfInput -> Seq(Byte)] :
           /\ \A v \in UnitsOfInput : g[v] = v.data
           /\ \A more \in Seq(UnitsOfInput) : Bytes(more) = Mapped(g, more)
  BY BytesAre
<1>2. PICK more \in Seq(UnitsOfInput) : more = <<u>> \o us
  BY OneIsASeq, ConcatProperties
<1>3. Mapped(g, <<u>> \o us) = g[u] \o Mapped(g, us)
  BY MapPrepend
<1> QED
  BY <1>1, <1>2, <1>3, Zenon

-----------------------------------------------------------------------------
(* The cutting of input keeps all but what pads line ends.                 *)

\* Whatever comes before, x and y are the same but for what pads line ends.
Alike(padding, x, y) ==
  \A s \in Seq(Byte) : UpToLineEnds(padding, s \o x) = UpToLineEnds(padding, s \o y)

LEMMA AlikeItself ==
  ASSUME NEW padding, NEW x, NEW y, NEW z, Alike(padding, x, y), Alike(padding, y, z)
  PROVE  Alike(padding, x, x) /\ Alike(padding, x, z)
BY Zenon DEF Alike

LEMMA AlikeAfter ==
  ASSUME NEW padding, NEW a \in Seq(Byte), NEW x \in Seq(Byte), NEW y \in Seq(Byte), Alike(padding, x, y),
         NEW v, NEW w, Joins(v, a, x), Joins(w, a, y)
  PROVE  Alike(padding, v, w)
<1> SUFFICES ASSUME NEW s \in Seq(Byte)
             PROVE  UpToLineEnds(padding, s \o v) = UpToLineEnds(padding, s \o w)
  BY DEF Alike
<1>1. PICK t \in Seq(Byte) : t = s \o a
  BY ConcatProperties
<1>2. UpToLineEnds(padding, t \o x) = UpToLineEnds(padding, t \o y)
  BY Zenon DEF Alike
<1>3. PICK p, q : p = t \o x /\ q = t \o y
  OBVIOUS
<1>4. Joins(t, s, a) /\ Joins(p, t, x) /\ Joins(q, t, y)
  BY <1>1, <1>3 DEF Joins
<1>5. Joins(p, s, v) /\ Joins(q, s, w)
  <2>1. Joins(p, s, v)
    BY <1>1, <1>4, JoinsRight, SMTT(60)
  <2>2. Joins(q, s, w)
    BY <1>1, <1>4, JoinsRight, SMTT(60)
  <2> QED
    BY <2>1, <2>2
<1> QED
  BY <1>2, <1>3, <1>5, Zenon DEF Joins

LEMMA AlikeBefore ==
  ASSUME NEW padding, NEW x \in Seq(Byte), NEW y \in Seq(Byte), NEW a \in Seq(Byte), Alike(padding, x, y),
         NEW v, NEW w, Joins(v, x, a), Joins(w, y, a)
  PROVE  Alike(padding, v, w)
<1> SUFFICES ASSUME NEW s \in Seq(Byte)
             PROVE  UpToLineEnds(padding, s \o v) = UpToLineEnds(padding, s \o w)
  BY DEF Alike
<1>1. PICK t \in Seq(Byte), u \in Seq(Byte) : t = s \o x /\ u = s \o y
  BY ConcatProperties
<1>2. UpToLineEnds(padding, t) = UpToLineEnds(padding, u)
  BY <1>1, Zenon DEF Alike
<1>3. UpToLineEnds(padding, t \o a) = UpToLineEnds(padding, u \o a)
  BY <1>2, SameGoesOn
<1>4. PICK p, q : p = t \o a /\ q = u \o a
  OBVIOUS
<1>5. Joins(t, s, x) /\ Joins(u, s, y) /\ Joins(p, t, a) /\ Joins(q, u, a)
  BY <1>1, <1>4 DEF Joins
<1>6. Joins(p, s, v) /\ Joins(q, s, w)
  <2>1. Joins(p, s, v)
    BY <1>5, JoinsRight, SMTT(60)
  <2>2. Joins(q, s, w)
    BY <1>5, JoinsRight, SMTT(60)
  <2> QED
    BY <2>1, <2>2
<1> QED
  BY <1>3, <1>4, <1>6, Zenon DEF Joins

LEMMA PaddingIsDropped ==
  ASSUME NEW padding, CR \notin padding, NEW b \in padding, NEW u \in Seq(Byte)
  PROVE  Padded(padding, Padded(padding, u, CR), b) = Padded(padding, u, CR)
<1>1. PICK w \in Seq(Byte) : w = Append(u, CR) /\ w # <<>> /\ Last(w) = CR
  <2>1. CR \in Byte
    BY Codes
  <2>2. PICK w \in Seq(Byte) : w = Append(u, CR) /\ Len(w) = Len(u) + 1 /\ w[Len(u) + 1] = CR /\ w # <<>>
    BY <2>1, AppendProperties
  <2> QED
    BY <2>2 DEF Last
<1>2. Padded(padding, u, CR) = w
  BY <1>1, Zenon DEF Padded
<1> QED
  BY <1>1, <1>2, Zenon DEF Padded

\* A byte after a CR that may pad it makes no difference.
LEMMA LineEndsAfterCR ==
  ASSUME NEW padding, CR \notin padding
  PROVE  \A s \in Seq(Byte), b \in Byte : b \in padding =>
           UpToLineEnds(padding, Append(Append(s, CR), b)) = UpToLineEnds(padding, Append(s, CR))
<1> SUFFICES ASSUME NEW s \in Seq(Byte), NEW b \in Byte, b \in padding
             PROVE  UpToLineEnds(padding, Append(Append(s, CR), b)) = UpToLineEnds(padding, Append(s, CR))
  OBVIOUS
<1>1. \A t \in Seq(Byte), d \in Byte :
        UpToLineEnds(padding, Append(t, d)) = Padded(padding, UpToLineEnds(padding, t), d)
  BY LineEndsNext, Zenon
<1>2. PICK u \in Seq(Byte) : u = UpToLineEnds(padding, s)
  BY LineEndsTyped
<1>3. PICK c \in Byte : c = CR
  BY Codes
<1>4. PICK ended \in Seq(Byte) : ended = Append(s, c)
  BY AppendProperties
<1>5. UpToLineEnds(padding, ended) = Padded(padding, u, CR)
  BY <1>1, <1>2, <1>3, <1>4
<1>6. UpToLineEnds(padding, Append(ended, b)) = Padded(padding, Padded(padding, u, CR), b)
  BY <1>1, <1>5
<1> QED
  BY <1>3, <1>4, <1>5, <1>6, PaddingIsDropped, Zenon

LEMMA CRPadded ==
  ASSUME NEW padding, CR \notin padding, LF \in padding,
         NEW cr \in Seq(Byte), cr = <<CR>>, NEW crlf \in Seq(Byte), crlf = cr \o <<LF>>
  PROVE  Alike(padding, cr, crlf)
<1> SUFFICES ASSUME NEW s \in Seq(Byte)
             PROVE  UpToLineEnds(padding, s \o cr) = UpToLineEnds(padding, s \o crlf)
  BY DEF Alike
<1>1. PICK c \in Byte, l \in Byte : c = CR /\ l = LF
  BY Codes
<1>2. PICK ended \in Seq(Byte) : ended = Append(s, c)
  BY AppendProperties
<1>3. PICK more \in Seq(Byte) : more = Append(ended, l)
  BY AppendProperties
<1>4. UpToLineEnds(padding, more) = UpToLineEnds(padding, ended)
  <2>1. \A t \in Seq(Byte), b \in Byte : b \in padding =>
          UpToLineEnds(padding, Append(Append(t, CR), b)) = UpToLineEnds(padding, Append(t, CR))
    BY LineEndsAfterCR, Zenon
  <2> QED
    BY <1>1, <1>2, <1>3, <2>1
<1>5. s \o cr = ended /\ s \o crlf = more
  <2>1. ended = s \o <<c>> /\ more = ended \o <<l>>
    BY <1>1, <1>2, <1>3, AppendIsConcat
  <2>2. PICK y \in Seq(Byte) : y = <<LF>>
    BY <1>1, OneIsASeq
  <2>3. (s \o cr) \o y = s \o (cr \o y)
    BY <2>2, ConcatAssociative
  <2> QED
    BY <1>1, <2>1, <2>2, <2>3, Zenon
<1> QED
  BY <1>4, <1>5, Zenon

LEMMA JoinAppend ==
  \A u \in Seq(Byte), v \in Seq(Byte), b \in Byte :
    Append(v, b) \in Seq(Byte) /\ u \o Append(v, b) = Append(u \o v, b)
<1> SUFFICES ASSUME NEW u \in Seq(Byte), NEW v \in Seq(Byte), NEW b \in Byte
             PROVE  Append(v, b) \in Seq(Byte) /\ u \o Append(v, b) = Append(u \o v, b)
  OBVIOUS
<1>1. PICK y \in Seq(Byte), z \in Seq(Byte) : y = <<b>> /\ z = u \o v
  BY OneIsASeq, ConcatProperties
<1>2. (u \o v) \o y = u \o (v \o y)
  BY ConcatAssociative
<1>3. Append(v, b) = v \o <<b>> /\ Append(z, b) = z \o <<b>> /\ Append(v, b) \in Seq(Byte)
  BY AppendIsConcat, AppendProperties
<1> QED
  BY <1>1, <1>2, <1>3, Zenon

\* Of CR and what may pad it, bytes.ReplaceAll keeps the CR.
LEMMA DropIsAlike ==
  ASSUME NEW padding, CR \notin padding, NEW byte \in padding, byte \in Byte, NEW data \in Seq(Byte)
  PROVE  Alike(padding, DropAfterCR(data, byte), data)
<1> SUFFICES ASSUME NEW s \in Seq(Byte)
             PROVE  UpToLineEnds(padding, s \o DropAfterCR(data, byte)) = UpToLineEnds(padding, s \o data)
  BY DEF Alike
<1>1. PICK n \in Nat : n = Len(data)
  BY LenProperties
<1>2. PICK f : Keeps(f, data, byte, n) /\ DropAfterCR(data, byte) = f[n]
  BY <1>1, DropRuns, Zenon
<1>3. /\ f[0] = <<>>
      /\ \A i \in 1..n : f[i] = IF i > 1 /\ data[i] = byte /\ data[i - 1] = CR
                                THEN f[i - 1] ELSE Append(f[i - 1], data[i])
  BY <1>2 DEF Keeps
<1>4. \A t \in Seq(Byte), d \in Byte :
        UpToLineEnds(padding, Append(t, d)) = Padded(padding, UpToLineEnds(padding, t), d)
  BY LineEndsNext, Zenon
<1>5. \A t \in Seq(Byte), b \in Byte : b \in padding =>
        UpToLineEnds(padding, Append(Append(t, CR), b)) = UpToLineEnds(padding, Append(t, CR))
  BY LineEndsAfterCR, Zenon
<1>6. PICK g : g = [i \in 0..n |-> s \o SubSeq(data, 1, i)]
  OBVIOUS
<1>7. ASSUME NEW i \in Nat, i + 1 <= n
      PROVE  /\ g[i] \in Seq(Byte) /\ data[i + 1] \in Byte
             /\ g[i + 1] = Append(g[i], data[i + 1])
  <2>1. PICK a \in Seq(Byte), e \in Byte : /\ a = s \o SubSeq(data, 1, i) /\ e = data[i + 1]
                                           /\ s \o SubSeq(data, 1, i + 1) = Append(a, e)
    <3>1. i + 1 <= Len(data)
      BY <1>1, <1>7
    <3> QED
      BY <1>7, <3>1, JoinOneMore, Zenon
  <2>2. i \in 0..n /\ i + 1 \in 0..n
    BY <1>7
  <2>3. g[i] = s \o SubSeq(data, 1, i) /\ g[i + 1] = s \o SubSeq(data, 1, i + 1)
    BY <1>6, <2>2
  <2> QED
    BY <2>1, <2>3, Zenon
<1> DEFINE S == {i \in Nat : i <= n => /\ f[i] \in Seq(Byte)
                                       /\ UpToLineEnds(padding, s \o f[i]) = UpToLineEnds(padding, g[i])}
<1>8. 0 \in S
  <2>1. s \o <<>> = s /\ <<>> \in Seq(Byte)
    BY ConcatEmptySeq, EmptySeq
  <2>2. g[0] = s \o <<>>
    <3>1. 0 \in 0..n /\ SubSeq(data, 1, 0) = <<>>
      BY WholeOf
    <3> QED
      BY <1>6, <3>1, Zenon
  <2>3. 0 \in Nat
    OBVIOUS
  <2> QED
    BY <1>3, <2>1, <2>2, <2>3, Zenon
<1>9. ASSUME NEW i \in Nat, i \in S
      PROVE  i + 1 \in S
  <2>0. i + 1 \in Nat
    OBVIOUS
  <2> SUFFICES ASSUME i + 1 <= n
               PROVE  /\ f[i + 1] \in Seq(Byte)
                      /\ UpToLineEnds(padding, s \o f[i + 1]) = UpToLineEnds(padding, g[i + 1])
    BY <2>0, Zenon
  <2>1. i <= n /\ i + 1 \in 1..n /\ (i + 1) - 1 = i
    OBVIOUS
  <2>2. f[i] \in Seq(Byte) /\ UpToLineEnds(padding, s \o f[i]) = UpToLineEnds(padding, g[i])
    BY <1>9, <2>1, Zenon
  <2>3. PICK a \in Seq(Byte), e \in Byte : a = g[i] /\ e = data[i + 1] /\ g[i + 1] = Append(a, e)
    BY <1>7
  <2>4. f[i + 1] = IF i + 1 > 1 /\ e = byte /\ data[i] = CR THEN f[i] ELSE Append(f[i], e)
    BY <1>3, <2>1, <2>3
  <2>5. CASE i + 1 > 1 /\ e = byte /\ data[i] = CR
    <3>1. PICK k \in Nat : k + 1 = i /\ k + 1 <= n
      BY <2>1, <2>5
    <3>2. g[k] \in Seq(Byte) /\ g[i] = Append(g[k], CR)
      BY <1>7, <2>5, <3>1
    <3>3. UpToLineEnds(padding, g[i + 1]) = UpToLineEnds(padding, g[i])
      BY <1>5, <2>3, <2>5, <3>2
    <3>4. f[i + 1] = f[i]
      BY <2>4, <2>5
    <3> QED
      BY <2>2, <3>3, <3>4, Zenon
  <2>6. CASE ~(i + 1 > 1 /\ e = byte /\ data[i] = CR)
    <3>1. f[i + 1] = Append(f[i], e)
      BY <2>4, <2>6
    <3>2. PICK t \in Seq(Byte) : t = s \o f[i]
      BY <2>2, ConcatProperties
    <3>3. s \o Append(f[i], e) = Append(t, e) /\ Append(f[i], e) \in Seq(Byte)
      <4>1. \A u \in Seq(Byte), v \in Seq(Byte), b \in Byte :
              Append(v, b) \in Seq(Byte) /\ u \o Append(v, b) = Append(u \o v, b)
        BY JoinAppend, Zenon
      <4> QED
        BY <2>2, <2>3, <3>2, <4>1, ZenonT(60)
    <3>4. UpToLineEnds(padding, t) = UpToLineEnds(padding, a)
      BY <2>2, <2>3, <3>2, Zenon
    <3>5. UpToLineEnds(padding, Append(t, e)) = UpToLineEnds(padding, Append(a, e))
      BY <1>4, <3>4
    <3> QED
      BY <2>3, <3>1, <3>3, <3>5, Zenon
  <2> QED
    BY <2>5, <2>6, Zenon
<1>10. Nat \subseteq S
  <2> HIDE DEF S
  <2> QED
    BY <1>8, <1>9, NatSetInduction
<1>11. n \in S
  <2> HIDE DEF S
  <2> QED
    BY <1>10
<1>12. g[n] = s \o data
  BY <1>1, <1>6, WholeOf
<1>13. UpToLineEnds(padding, s \o f[n]) = UpToLineEnds(padding, g[n])
  <2>1. n <= n
    OBVIOUS
  <2> QED
    BY <1>11, <2>1, Zenon
<1> QED
  BY <1>2, <1>12, <1>13, Zenon

\* What is left of the data from i on.
Rest(data, i) == SubSeq(data, i, Len(data))

LEMMA RestSplits ==
  ASSUME NEW data \in Seq(Byte)
  PROVE  /\ Rest(data, 1) = data
         /\ Rest(data, Len(data) + 1) = <<>>
         /\ \A i \in 1..(Len(data) + 1) : Rest(data, i) \in Seq(Byte)
         /\ \A i \in 1..Len(data), end \in 1..Len(data) :
              i <= end => Joins(Rest(data, i), SubSeq(data, i, end), Rest(data, end + 1))
         /\ \A i \in 1..Len(data) : Joins(Rest(data, i), <<data[i]>>, Rest(data, i + 1))
<1>1. PICK n \in Nat : n = Len(data)
  BY LenProperties
<1>2. SubSeq(data, 1, n) = data
  BY <1>1, SubSeqFull
<1>3. SubSeq(data, n + 1, n) = <<>>
  BY <1>1, SubSeqEmpty
<1>4. ASSUME NEW i \in 1..(n + 1)
      PROVE  Rest(data, i) \in Seq(Byte)
  <2>1. \A k \in i..n : data[k] \in Byte
    BY <1>1, ElementOfSeq
  <2> QED
    BY <1>1, <2>1, SubSeqProperties DEF Rest
<1>5. ASSUME NEW i \in 1..n, NEW end \in 1..n, i <= end
      PROVE  Joins(Rest(data, i), SubSeq(data, i, end), Rest(data, end + 1))
  <2>1. SubSeq(data, i, end) \o SubSeq(data, end + 1, n) = SubSeq(data, i, n)
    <3>1. i \in 1..(Len(data) + 1) /\ end \in (i - 1)..Len(data) /\ n \in end..Len(data)
      BY <1>1, <1>5
    <3> QED
      BY <3>1, ConcatAdjacentSubSeq
  <2> QED
    BY <1>1, <2>1 DEF Joins, Rest
<1>6. ASSUME NEW i \in 1..n
      PROVE  Joins(Rest(data, i), <<data[i]>>, Rest(data, i + 1))
  <2>1. i \in 1..Len(data) /\ n \in i..Len(data)
    BY <1>1
  <2>2. SubSeq(data, i, n) = <<data[i]>> \o SubSeq(data, i + 1, n)
    BY <2>1, SubSeqRecursiveFirst
  <2> QED
    BY <1>1, <2>2 DEF Joins, Rest
<1> QED
  BY <1>1, <1>2, <1>3, <1>4, <1>5, <1>6 DEF Rest

LEMMA UnitTyped ==
  ASSUME NEW bytes \in Seq(Byte), bytes # <<>>, NEW escape \in BOOLEAN
  PROVE  /\ [data |-> bytes, escape |-> escape] \in UnitsOfInput
         /\ [data |-> bytes, escape |-> escape].data = bytes
BY DEF UnitsOfInput

LEMMA JoinPlainBytes ==
  ASSUME NEW byte \in Byte, NEW us \in Seq(UnitsOfInput)
  PROVE  Joins(Bytes(JoinPlain(byte, us)), <<byte>>, Bytes(us))
<1>1. PICK one \in Seq(Byte) : one = <<byte>> /\ one # <<>>
  BY OneIsASeq
<1>2. CASE us # <<>> /\ ~Head(us).escape
  <2>1. PICK head \in UnitsOfInput, tail \in Seq(UnitsOfInput) : head = Head(us) /\ tail = Tail(us)
    BY <1>2, HeadTailProperties
  <2>2. PICK d \in Seq(Byte) : d = head.data
    BY <2>1 DEF UnitsOfInput
  <2>3. PICK e \in Seq(Byte) : e = one \o d /\ e # <<>>
    <3>1. PICK e \in Seq(Byte) : e = one \o d /\ Len(e) = Len(one) + Len(d)
      BY ConcatProperties
    <3>2. Len(one) = 1 /\ Len(d) \in Nat
      BY <1>1, LenProperties
    <3>3. Len(e) # 0
      BY <3>1, <3>2
    <3> QED
      BY <3>1, <3>3, EmptySeq, Zenon
  <2>4. PICK joined \in UnitsOfInput : joined = [data |-> e, escape |-> FALSE] /\ joined.data = e
    BY <2>3, UnitTyped
  <2>5. JoinPlain(byte, us) = <<joined>> \o tail
    BY <1>1, <1>2, <2>1, <2>2, <2>3, <2>4, Zenon DEF JoinPlain
  <2>6. PICK rest \in Seq(Byte) : rest = Bytes(tail)
    BY BytesTyped
  <2>7. Bytes(<<joined>> \o tail) = e \o rest
    BY <2>4, <2>6, BytesPrepend, Zenon
  <2>8. us = <<head>> \o tail
    BY <1>2, <2>1
  <2>9. Bytes(us) = d \o rest
    BY <2>2, <2>6, <2>8, BytesPrepend, Zenon
  <2>10. PICK all : all = e \o rest
    OBVIOUS
  <2>11. Joins(e, one, d) /\ Joins(Bytes(us), d, rest) /\ Joins(all, e, rest)
    BY <2>3, <2>9, <2>10 DEF Joins
  <2>12. Joins(all, one, Bytes(us))
    BY <2>11, JoinsRight, SMTT(60)
  <2> QED
    BY <1>1, <2>5, <2>7, <2>10, <2>12, Zenon
<1>3. CASE ~(us # <<>> /\ ~Head(us).escape)
  <2>1. PICK alone \in UnitsOfInput : alone = [data |-> one, escape |-> FALSE] /\ alone.data = one
    BY <1>1, UnitTyped
  <2>2. JoinPlain(byte, us) = <<alone>> \o us
    BY <1>1, <1>3, <2>1, Zenon DEF JoinPlain
  <2>3. Bytes(<<alone>> \o us) = one \o Bytes(us)
    BY <2>1, BytesPrepend, Zenon
  <2> QED
    BY <1>1, <2>2, <2>3, Zenon DEF Joins
<1> QED
  BY <1>2, <1>3

LEMMA UnitsFromAlike ==
  ASSUME NEW padding, CR \notin padding, NEW normalizeCRLF, normalizeCRLF => LF \in padding,
         NEW bytes \in Seq(Byte), NEW i \in 1..(Len(bytes) + 1), NEW f,
         \A j \in (i + 1)..(Len(bytes) + 1) : /\ f[j] \in Seq(UnitsOfInput)
                                              /\ Alike(padding, Bytes(f[j]), Rest(bytes, j))
  PROVE  Alike(padding, Bytes(UnitsFrom(f, bytes, normalizeCRLF, i)), Rest(bytes, i))
<1>1. PICK n \in Nat : n = Len(bytes)
  BY LenProperties
<1>2. \A k \in 1..(n + 1) : Rest(bytes, k) \in Seq(Byte)
  BY <1>1, RestSplits
<1>3. CASE i > Len(bytes)
  <2>1. Rest(bytes, i) = <<>>
    <3>1. i = Len(bytes) + 1
      BY <1>1, <1>3
    <3> QED
      BY <3>1, RestSplits, Zenon
  <2>2. UnitsFrom(f, bytes, normalizeCRLF, i) = <<>>
    BY <1>3 DEF UnitsFrom
  <2> QED
    BY <2>1, <2>2, BytesOfNone, Zenon DEF Alike
<1>4. CASE ~(i > Len(bytes)) /\ normalizeCRLF /\ bytes[i] = CR /\ i < Len(bytes) /\ bytes[i + 1] = LF
  <2>1. i \in 1..Len(bytes) /\ i + 1 \in 1..Len(bytes) /\ (i + 1) + 1 = i + 2 /\ i + 2 \in (i + 1)..(Len(bytes) + 1)
    BY <1>1, <1>4
  <2>2. PICK cr \in Seq(Byte), lf \in Seq(Byte) : cr = <<CR>> /\ lf = <<LF>>
    BY Codes, OneIsASeq
  <2>3. PICK crlf \in Seq(Byte) : crlf = cr \o lf
    BY ConcatProperties
  <2>4. PICK b \in Seq(Byte), r \in Seq(Byte), r1 \in Seq(Byte) :
          b = Bytes(f[i + 2]) /\ r = Rest(bytes, i + 2) /\ r1 = Rest(bytes, i + 1)
    BY <1>1, <1>2, <2>1, BytesTyped
  <2>5. Alike(padding, b, r)
    BY <2>1, <2>4
  <2>6. PICK v, w : v = cr \o b /\ w = cr \o r
    OBVIOUS
  <2>7. Alike(padding, v, w)
    <3>1. Joins(v, cr, b) /\ Joins(w, cr, r)
      BY <2>6 DEF Joins
    <3> QED
      BY <2>5, <3>1, AlikeAfter, Zenon
  <2>8. Alike(padding, cr, crlf)
    BY <1>4, <2>2, <2>3, CRPadded, Zenon
  <2>9. PICK all : all = Rest(bytes, i)
    OBVIOUS
  <2>10. Joins(all, cr, r1) /\ Joins(r1, lf, r)
    BY <1>4, <2>1, <2>2, <2>4, <2>9, RestSplits, Zenon
  <2>11. Joins(all, crlf, r)
    <3>1. Joins(crlf, cr, lf)
      BY <2>3 DEF Joins
    <3> QED
      BY <2>10, <3>1, JoinsLeft, SMTT(60)
  <2>12. Alike(padding, w, all)
    <3>1. Joins(w, cr, r)
      BY <2>6 DEF Joins
    <3> QED
      BY <2>8, <2>11, <3>1, AlikeBefore, Zenon
  <2>13. Bytes(UnitsFrom(f, bytes, normalizeCRLF, i)) = v
    <3>1. CR \in Byte /\ f[i + 2] \in Seq(UnitsOfInput)
      BY <2>1, Codes
    <3>2. Joins(Bytes(JoinPlain(CR, f[i + 2])), <<CR>>, Bytes(f[i + 2]))
      BY <3>1, JoinPlainBytes, Zenon
    <3>3. UnitsFrom(f, bytes, normalizeCRLF, i) = JoinPlain(CR, f[i + 2])
      BY <1>4, Zenon DEF UnitsFrom
    <3> QED
      BY <2>2, <2>4, <2>6, <3>2, <3>3, Zenon DEF Joins
  <2> QED
    BY <2>7, <2>9, <2>12, <2>13, AlikeItself, Zenon
<1>5. CASE /\ ~(i > Len(bytes))
           /\ ~(normalizeCRLF /\ bytes[i] = CR /\ i < Len(bytes) /\ bytes[i + 1] = LF)
           /\ bytes[i] # ESC
  <2>1. i + 1 \in (i + 1)..(Len(bytes) + 1) /\ i \in 1..Len(bytes) /\ i + 1 \in 1..(n + 1)
    BY <1>1, <1>5
  <2>2. PICK e \in Byte : e = bytes[i]
    BY <2>1, ElementOfSeq
  <2>3. PICK one \in Seq(Byte) : one = <<e>>
    BY OneIsASeq
  <2>4. PICK b \in Seq(Byte), r \in Seq(Byte) : b = Bytes(f[i + 1]) /\ r = Rest(bytes, i + 1)
    BY <1>2, <2>1, BytesTyped
  <2>5. Alike(padding, b, r)
    BY <2>1, <2>4
  <2>6. Joins(Bytes(UnitsFrom(f, bytes, normalizeCRLF, i)), one, b)
    <3>1. Joins(Bytes(JoinPlain(e, f[i + 1])), <<e>>, Bytes(f[i + 1]))
      BY <2>1, JoinPlainBytes
    <3>2. UnitsFrom(f, bytes, normalizeCRLF, i) = JoinPlain(e, f[i + 1])
      BY <1>5, <2>2, Zenon DEF UnitsFrom
    <3> QED
      BY <2>3, <2>4, <3>1, <3>2, Zenon
  <2>7. Joins(Rest(bytes, i), one, r)
    BY <2>1, <2>2, <2>3, <2>4, RestSplits, Zenon
  <2> QED
    BY <2>5, <2>6, <2>7, AlikeAfter, Zenon
<1>6. CASE /\ ~(i > Len(bytes))
           /\ ~(normalizeCRLF /\ bytes[i] = CR /\ i < Len(bytes) /\ bytes[i + 1] = LF)
           /\ ~(bytes[i] # ESC)
  <2>1. i \in 1..Len(bytes)
    BY <1>1, <1>6
  <2>2. PICK end \in i..Len(bytes) : end = EscapeSequenceEnd(bytes, i)
    BY <2>1, EscapeEndsInTheData
  <2>3. end + 1 \in (i + 1)..(Len(bytes) + 1) /\ end + 1 \in 1..(n + 1) /\ end \in 1..Len(bytes) /\ i <= end
    BY <1>1
  <2>4. PICK part \in Seq(Byte) : part = SubSeq(bytes, i, end) /\ part # <<>>
    BY <2>3, PartTyped, Zenon
  <2>5. PICK unit \in UnitsOfInput : unit = [data |-> part, escape |-> TRUE] /\ unit.data = part
    BY <2>4, UnitTyped
  <2>6. PICK b \in Seq(Byte), r \in Seq(Byte) : b = Bytes(f[end + 1]) /\ r = Rest(bytes, end + 1)
    BY <1>2, <2>3, BytesTyped
  <2>7. Alike(padding, b, r)
    BY <2>3, <2>6
  <2>8. Joins(Bytes(UnitsFrom(f, bytes, normalizeCRLF, i)), part, b)
    <3>1. f[end + 1] \in Seq(UnitsOfInput)
      BY <2>3
    <3>2. Bytes(<<unit>> \o f[end + 1]) = unit.data \o Bytes(f[end + 1])
      BY <3>1, BytesPrepend, Zenon
    <3>3. UnitsFrom(f, bytes, normalizeCRLF, i) = <<unit>> \o f[end + 1]
      BY <1>6, <2>2, <2>4, <2>5, Zenon DEF UnitsFrom
    <3> QED
      BY <2>5, <2>6, <3>2, <3>3, Zenon DEF Joins
  <2>9. Joins(Rest(bytes, i), part, r)
    BY <2>1, <2>3, <2>4, <2>6, RestSplits, Zenon
  <2> QED
    BY <2>7, <2>8, <2>9, AlikeAfter, Zenon
<1> QED
  BY <1>3, <1>4, <1>5, <1>6, Zenon

\* The units of the data hold the data, but for what pads line ends.
LEMMA SplitIsAlike ==
  ASSUME NEW padding, CR \notin padding, NEW normalizeCRLF, normalizeCRLF => LF \in padding,
         NEW bytes \in Seq(Byte)
  PROVE  Alike(padding, Bytes(Split(bytes, normalizeCRLF)), bytes)
<1>1. PICK n \in Nat : n = Len(bytes)
  BY LenProperties
<1>2. PICK f : /\ \A i \in 1..(n + 1) : /\ f[i] = UnitsFrom(f, bytes, normalizeCRLF, i)
                                        /\ f[i] \in Seq(UnitsOfInput)
               /\ Split(bytes, normalizeCRLF) = f[1]
  BY <1>1, SplitRuns, Zenon
<1> DEFINE S == {k \in Nat : \A i \in 1..(n + 1) : i + k >= n + 1 => Alike(padding, Bytes(f[i]), Rest(bytes, i))}
<1>3. ASSUME NEW i \in 1..(n + 1), \A j \in (i + 1)..(n + 1) : Alike(padding, Bytes(f[j]), Rest(bytes, j))
      PROVE  Alike(padding, Bytes(f[i]), Rest(bytes, i))
  <2>1. \A j \in (i + 1)..(Len(bytes) + 1) : f[j] \in Seq(UnitsOfInput) /\ Alike(padding, Bytes(f[j]), Rest(bytes, j))
    BY <1>1, <1>2, <1>3
  <2>2. i \in 1..(Len(bytes) + 1)
    BY <1>1
  <2>3. Alike(padding, Bytes(UnitsFrom(f, bytes, normalizeCRLF, i)), Rest(bytes, i))
    BY <2>1, <2>2, UnitsFromAlike, Zenon
  <2> QED
    BY <1>2, <2>3, Zenon
<1>4. 0 \in S
  <2>0. 0 \in Nat
    OBVIOUS
  <2> SUFFICES ASSUME NEW i \in 1..(n + 1), i + 0 >= n + 1
               PROVE  Alike(padding, Bytes(f[i]), Rest(bytes, i))
    BY <2>0, Zenon
  <2>1. \A j \in (i + 1)..(n + 1) : FALSE
    OBVIOUS
  <2> QED
    BY <1>3, <2>1, Zenon
<1>5. ASSUME NEW k \in Nat, k \in S
      PROVE  k + 1 \in S
  <2>0. k + 1 \in Nat
    OBVIOUS
  <2> SUFFICES ASSUME NEW i \in 1..(n + 1), i + (k + 1) >= n + 1
               PROVE  Alike(padding, Bytes(f[i]), Rest(bytes, i))
    BY <2>0, Zenon
  <2>1. ASSUME NEW j \in (i + 1)..(n + 1)
        PROVE  Alike(padding, Bytes(f[j]), Rest(bytes, j))
    <3>1. j \in 1..(n + 1) /\ j + k >= n + 1
      OBVIOUS
    <3> QED
      BY <1>5, <3>1, Zenon
  <2> QED
    BY <1>3, <2>1, Zenon
<1>6. Nat \subseteq S
  <2> HIDE DEF S
  <2> QED
    BY <1>4, <1>5, NatSetInduction
<1>7. n \in S
  <2> HIDE DEF S
  <2> QED
    BY <1>6
<1>8. 1 \in 1..(n + 1) /\ 1 + n >= n + 1
  OBVIOUS
<1>9. Alike(padding, Bytes(f[1]), Rest(bytes, 1))
  BY <1>7, <1>8, Zenon
<1> QED
  BY <1>2, <1>9, RestSplits, Zenon

\* What stays to be written of a client's units.
PendingOf(place, us, n) ==
  IF place = "record" THEN SubSeq(Bytes(us), n + 1, Len(Bytes(us))) ELSE Bytes(us)

\* us are the units of a client, of which sent was written before, and n bytes
\* of the first, and meant is the data that it sent.
Arrived(padding, place, us, n, sent, meant) ==
  /\ place = "reading" => us = <<>>
  /\ IF place = "left"
     THEN IsPrefix(UpToLineEnds(padding, sent), UpToLineEnds(padding, meant))
     ELSE UpToLineEnds(padding, sent \o PendingOf(place, us, n)) = UpToLineEnds(padding, meant)

LEMMA PartsOfJoined ==
  ASSUME NEW a \in Seq(Byte), NEW b \in Seq(Byte), NEW w, Joins(w, a, b), NEW n \in 0..Len(a)
  PROVE  /\ SubSeq(a, 1, n) \in Seq(Byte)
         /\ SubSeq(w, n + 1, Len(w)) \in Seq(Byte)
         /\ Joins(w, SubSeq(a, 1, n), SubSeq(w, n + 1, Len(w)))
         /\ SubSeq(w, Len(a) + 1, Len(w)) = b
<1>1. PICK k \in Nat, m \in Nat : k = Len(a) /\ m = Len(b)
  BY LenProperties
<1>2. w \in Seq(Byte) /\ Len(w) = k + m
  BY <1>1, ConcatProperties DEF Joins
<1>3. SubSeq(w, 1, n) = SubSeq(a, 1, n)
  <2>1. CASE n = 0
    BY <2>1, SubSeqEmpty
  <2>2. CASE n # 0
    <3>1. 1 \in 1..Len(a) /\ n \in 1..Len(a)
      BY <1>1, <2>2
    <3>2. SubSeq(a \o b, 1, n) = SubSeq(a, 1, n)
      BY <3>1, SubSeqOfConcat1
    <3> QED
      BY <3>2 DEF Joins
  <2> QED
    BY <2>1, <2>2
<1>4. SubSeq(w, 1, n) \o SubSeq(w, n + 1, k + m) = SubSeq(w, 1, k + m)
  <2>1. 1 \in 1..(Len(w) + 1) /\ n \in (1 - 1)..Len(w) /\ k + m \in n..Len(w)
    BY <1>1, <1>2
  <2> QED
    BY <1>2, <2>1, ConcatAdjacentSubSeq
<1>5. SubSeq(w, 1, k + m) = w
  BY <1>2, SubSeqFull
<1>6. SubSeq(a, 1, n) \in Seq(Byte) /\ SubSeq(w, n + 1, k + m) \in Seq(Byte)
  <2>1. (\A i \in 1..n : a[i] \in Byte) /\ \A i \in (n + 1)..(k + m) : w[i] \in Byte
    BY <1>1, <1>2, ElementOfSeq
  <2>2. n \in Int /\ n + 1 \in Int /\ k + m \in Int
    OBVIOUS
  <2> QED
    BY <2>1, <2>2, SubSeqProperties
<1>7. SubSeq(w, k + 1, k + m) = b
  <2>1. CASE m = 0
    <3>1. b = <<>>
      BY <1>1, <2>1, EmptySeq
    <3> QED
      BY <2>1, <3>1, SubSeqEmpty
  <2>2. CASE m # 0
    <3>1. k + 1 \in (Len(a) + 1)..(Len(a) + Len(b)) /\ k + m \in (Len(a) + 1)..(Len(a) + Len(b))
      BY <1>1, <2>2
    <3>2. SubSeq(a \o b, k + 1, k + m) = SubSeq(b, (k + 1) - Len(a), (k + m) - Len(a))
      BY <3>1, SubSeqOfConcat2
    <3>3. (k + 1) - Len(a) = 1 /\ (k + m) - Len(a) = Len(b)
      BY <1>1
    <3>4. SubSeq(b, 1, Len(b)) = b
      BY SubSeqFull
    <3> QED
      BY <3>2, <3>3, <3>4, Zenon DEF Joins
  <2> QED
    BY <2>1, <2>2
<1> QED
  BY <1>1, <1>2, <1>3, <1>4, <1>5, <1>6, <1>7, Zenon DEF Joins

LEMMA PendingTyped ==
  ASSUME NEW us \in Seq(UnitsOfInput), NEW place, NEW n \in Nat
  PROVE  PendingOf(place, us, n) \in Seq(Byte)
<1>1. PICK b \in Seq(Byte) : b = Bytes(us)
  BY BytesTyped
<1>2. PICK k \in Nat : k = Len(b)
  BY LenProperties
<1>3. \A i \in (n + 1)..k : b[i] \in Byte
  BY <1>2, ElementOfSeq
<1>4. SubSeq(b, n + 1, k) \in Seq(Byte)
  <2>1. n + 1 \in Int /\ k \in Int
    OBVIOUS
  <2> QED
    BY <1>3, <2>1, SubSeqProperties
<1> QED
  BY <1>1, <1>2, <1>4, Zenon DEF PendingOf

\* The bytes of the first unit and of the others.
LEMMA FirstUnit ==
  ASSUME NEW us \in Seq(UnitsOfInput), us # <<>>
  PROVE  \E a \in Seq(Byte), b \in Seq(Byte) :
           a = Head(us).data /\ b = Bytes(Tail(us)) /\ Joins(Bytes(us), a, b)
<1>1. PICK head \in UnitsOfInput, tail \in Seq(UnitsOfInput) : head = Head(us) /\ tail = Tail(us)
  BY HeadTailProperties
<1>2. us = <<head>> \o tail
  BY <1>1
<1>3. Bytes(us) = head.data \o Bytes(tail)
  BY <1>2, BytesPrepend, Zenon
<1>4. head.data \in Seq(Byte) /\ Bytes(tail) \in Seq(Byte)
  BY BytesTyped DEF UnitsOfInput
<1> QED
  BY <1>1, <1>3, <1>4 DEF Joins

\* A read is decoded and cut.
LEMMA ArrivedReads ==
  ASSUME NEW padding, NEW us, NEW n, NEW m, NEW sent \in Seq(Byte), NEW meant \in Seq(Byte),
         Arrived(padding, "reading", us, n, sent, meant),
         NEW data \in Seq(Byte), NEW cuts \in Seq(UnitsOfInput), Alike(padding, Bytes(cuts), data),
         NEW place, place \notin {"record", "left"}, place = "reading" => cuts = <<>>
  PROVE  Arrived(padding, place, cuts, m, sent, meant \o data)
<1>1. UpToLineEnds(padding, sent) = UpToLineEnds(padding, meant)
  <2>1. us = <<>> /\ UpToLineEnds(padding, sent \o PendingOf("reading", us, n)) = UpToLineEnds(padding, meant)
    BY DEF Arrived
  <2>2. PendingOf("reading", us, n) = <<>>
    BY <2>1, BytesOfNone DEF PendingOf
  <2>3. sent \o <<>> = sent
    BY ConcatEmptySeq
  <2> QED
    BY <2>1, <2>2, <2>3, Zenon
<1>2. UpToLineEnds(padding, sent \o data) = UpToLineEnds(padding, meant \o data)
  BY <1>1, SameGoesOn, Zenon
<1>3. UpToLineEnds(padding, sent \o Bytes(cuts)) = UpToLineEnds(padding, sent \o data)
  BY Zenon DEF Alike
<1>4. PendingOf(place, cuts, m) = Bytes(cuts)
  BY DEF PendingOf
<1> QED
  BY <1>2, <1>3, <1>4 DEF Arrived

\* Between two actions that write to the port.
LEMMA ArrivedGoesOn ==
  ASSUME NEW padding, NEW us, NEW n, NEW sent, NEW meant, NEW place, NEW later,
         Arrived(padding, place, us, n, sent, meant),
         place \notin {"record", "left"}, later \notin {"record", "left"}, later = "reading" => us = <<>>
  PROVE  Arrived(padding, later, us, n, sent, meant)
BY DEF Arrived, PendingOf

\* What has not been written when the handler ends is lost.
LEMMA ArrivedEnds ==
  ASSUME NEW padding, NEW us \in Seq(UnitsOfInput), NEW n \in Nat, NEW sent \in Seq(Byte), NEW meant, NEW place,
         Arrived(padding, place, us, n, sent, meant), place # "left", NEW rest
  PROVE  Arrived(padding, "left", rest, n, sent, meant)
<1>1. PICK p \in Seq(Byte) : p = PendingOf(place, us, n)
  BY PendingTyped
<1>2. IsPrefix(UpToLineEnds(padding, sent), UpToLineEnds(padding, sent \o p))
  BY LineEndsBegin
<1>3. UpToLineEnds(padding, sent \o p) = UpToLineEnds(padding, meant)
  BY <1>1 DEF Arrived
<1> QED
  BY <1>2, <1>3 DEF Arrived

\* port.Write takes n bytes of the unit.
LEMMA ArrivedWrites ==
  ASSUME NEW padding, NEW us \in Seq(UnitsOfInput), us # <<>>, NEW m, NEW sent \in Seq(Byte), NEW meant,
         Arrived(padding, "port", us, m, sent, meant), NEW n \in 0..Len(Head(us).data)
  PROVE  Arrived(padding, "record", us, n, sent \o SubSeq(Head(us).data, 1, n), meant)
<1>1. PICK a \in Seq(Byte), b \in Seq(Byte) : a = Head(us).data /\ b = Bytes(Tail(us)) /\ Joins(Bytes(us), a, b)
  BY FirstUnit
<1>2. PICK w : w = Bytes(us)
  OBVIOUS
<1>3. /\ SubSeq(a, 1, n) \in Seq(Byte)
      /\ SubSeq(w, n + 1, Len(w)) \in Seq(Byte)
      /\ Joins(w, SubSeq(a, 1, n), SubSeq(w, n + 1, Len(w)))
  BY <1>1, <1>2, PartsOfJoined
<1>4. PICK first \in Seq(Byte), last \in Seq(Byte) : first = SubSeq(a, 1, n) /\ last = SubSeq(w, n + 1, Len(w))
  BY <1>3
<1>5. PICK left, all : left = sent \o first /\ all = left \o last
  OBVIOUS
<1>6. all = sent \o w
  <2>1. Joins(left, sent, first) /\ Joins(all, left, last) /\ Joins(w, first, last)
    BY <1>3, <1>4, <1>5 DEF Joins
  <2>2. Joins(all, sent, w)
    BY <2>1, JoinsRight, SMTT(60)
  <2> QED
    BY <2>2 DEF Joins
<1>7. UpToLineEnds(padding, sent \o w) = UpToLineEnds(padding, meant)
  BY <1>2 DEF Arrived, PendingOf
<1>8. PendingOf("record", us, n) = last
  BY <1>2, <1>4, Zenon DEF PendingOf
<1>9. sent \o SubSeq(Head(us).data, 1, n) = left
  BY <1>1, <1>4, <1>5, Zenon
<1>10. UpToLineEnds(padding, left \o last) = UpToLineEnds(padding, meant)
  BY <1>5, <1>6, <1>7, Zenon
<1> QED
  BY <1>8, <1>9, <1>10 DEF Arrived

\* The unit was written in full.
LEMMA ArrivedRecords ==
  ASSUME NEW padding, NEW us \in Seq(UnitsOfInput), us # <<>>, NEW n, n = Len(Head(us).data),
         NEW sent, NEW meant, Arrived(padding, "record", us, n, sent, meant),
         NEW place, place \notin {"record", "left"}, place = "reading" => Tail(us) = <<>>
  PROVE  Arrived(padding, place, Tail(us), n, sent, meant)
<1>1. PICK a \in Seq(Byte), b \in Seq(Byte) : a = Head(us).data /\ b = Bytes(Tail(us)) /\ Joins(Bytes(us), a, b)
  BY FirstUnit
<1>2. PICK w : w = Bytes(us)
  OBVIOUS
<1>3. SubSeq(w, Len(a) + 1, Len(w)) = b
  <2>1. Len(a) \in 0..Len(a)
    BY LenProperties
  <2> QED
    BY <1>1, <1>2, <2>1, PartsOfJoined
<1>4. PendingOf("record", us, n) = b
  BY <1>1, <1>2, <1>3, Zenon DEF PendingOf
<1>5. PendingOf(place, Tail(us), n) = b
  BY <1>1 DEF PendingOf
<1> QED
  BY <1>4, <1>5 DEF Arrived

-----------------------------------------------------------------------------
(* What of the wire is of a client.                                        *)

Entries == Clients \X Byte

OfClient(c, entries) == FlattenSeq([i \in DOMAIN entries |-> IF entries[i][1] = c THEN <<entries[i][2]>> ELSE <<>>])

LEMMA OfClientIs ==
  ASSUME NEW c
  PROVE  \E g \in [Entries -> Seq(Byte)] :
           /\ \A k \in Clients, b \in Byte : g[<<k, b>>] = IF k = c THEN <<b>> ELSE <<>>
           /\ \A w \in Seq(Entries) : OfClient(c, w) = Mapped(g, w)
<1>1. PICK g : g = [e \in Entries |-> IF e[1] = c THEN <<e[2]>> ELSE <<>>]
  OBVIOUS
<1>2. g \in [Entries -> Seq(Byte)]
  <2>1. ASSUME NEW e \in Entries
        PROVE  (IF e[1] = c THEN <<e[2]>> ELSE <<>>) \in Seq(Byte)
    <3>1. e[2] \in Byte
      BY DEF Entries
    <3>2. <<e[2]>> \in Seq(Byte) /\ <<>> \in Seq(Byte)
      BY <3>1, OneIsASeq, EmptySeq
    <3> QED
      BY <3>2
  <2> QED
    BY <1>1, <2>1
<1>3. \A k \in Clients, b \in Byte : g[<<k, b>>] = IF k = c THEN <<b>> ELSE <<>>
  BY <1>1 DEF Entries
<1>4. ASSUME NEW w \in Seq(Entries)
      PROVE  OfClient(c, w) = Mapped(g, w)
  <2>1. \A i \in DOMAIN w : w[i] \in Entries
    BY ElementOfSeq, LenProperties
  <2>2. [i \in DOMAIN w |-> IF w[i][1] = c THEN <<w[i][2]>> ELSE <<>>] = [i \in DOMAIN w |-> g[w[i]]]
    BY <1>1, <2>1
  <2> QED
    BY <2>2, Zenon DEF OfClient, Mapped
<1> QED
  BY <1>2, <1>3, <1>4, Zenon

LEMMA OfClientTyped ==
  ASSUME NEW c, NEW w \in Seq(Entries)
  PROVE  OfClient(c, w) \in Seq(Byte)
<1>1. PICK g \in [Entries -> Seq(Byte)] : OfClient(c, w) = Mapped(g, w)
  BY OfClientIs
<1> QED
  BY <1>1, MappedTyped, Zenon

LEMMA OfClientEmpty ==
  ASSUME NEW c
  PROVE  OfClient(c, <<>>) = <<>>
<1>1. [i \in DOMAIN <<>> |-> IF <<>>[i][1] = c THEN <<<<>>[i][2]>> ELSE <<>>] = <<>>
  OBVIOUS
<1> QED
  BY <1>1, FlattenEmpty, Zenon DEF OfClient

LEMMA OfClientAppend ==
  ASSUME NEW c
  PROVE  \A w \in Seq(Entries), k \in Clients, b \in Byte :
           OfClient(c, Append(w, <<k, b>>)) = IF k = c THEN Append(OfClient(c, w), b) ELSE OfClient(c, w)
<1> SUFFICES ASSUME NEW w \in Seq(Entries), NEW k \in Clients, NEW b \in Byte
             PROVE  OfClient(c, Append(w, <<k, b>>)) = IF k = c THEN Append(OfClient(c, w), b) ELSE OfClient(c, w)
  OBVIOUS
<1>1. PICK g \in [Entries -> Seq(Byte)] :
           /\ \A j \in Clients, d \in Byte : g[<<j, d>>] = IF j = c THEN <<d>> ELSE <<>>
           /\ \A v \in Seq(Entries) : OfClient(c, v) = Mapped(g, v)
  BY OfClientIs
<1>2. PICK e \in Entries : e = <<k, b>>
  BY DEF Entries
<1>3. PICK more \in Seq(Entries) : more = Append(w, e)
  BY AppendProperties
<1>4. Mapped(g, more) = Mapped(g, w) \o g[e]
  BY <1>3, MapAppend, Zenon
<1>5. PICK u \in Seq(Byte) : u = OfClient(c, w)
  BY OfClientTyped
<1>6. OfClient(c, more) = u \o g[e]
  BY <1>1, <1>4, <1>5, Zenon
<1>7. g[e] = IF k = c THEN <<b>> ELSE <<>>
  BY <1>1, <1>2, Zenon
<1>8. u \o <<b>> = Append(u, b) /\ u \o <<>> = u
  BY AppendIsConcat, ConcatEmptySeq
<1> QED
  BY <1>2, <1>3, <1>5, <1>6, <1>7, <1>8, Zenon

\* The first i entries, with one more.
LEMMA OneEntryMore ==
  ASSUME NEW w \in Seq(Entries), NEW e \in Seq(Entries), NEW i \in Nat, i + 1 <= Len(e)
  PROVE  \E a \in Seq(Entries), x \in Entries :
           /\ a = w \o SubSeq(e, 1, i) /\ x = e[i + 1]
           /\ w \o SubSeq(e, 1, i + 1) = Append(a, x)
<1>1. PICK n \in Nat : n = Len(e)
  BY LenProperties
<1>2. \A k \in 1..(i + 1) : e[k] \in Entries
  BY <1>1, ElementOfSeq
<1>3. PICK s \in Seq(Entries), x \in Entries : s = SubSeq(e, 1, i) /\ x = e[i + 1]
  <2>1. \A k \in 1..i : e[k] \in Entries
    BY <1>2
  <2>2. SubSeq(e, 1, i) \in Seq(Entries)
    <3>1. 1 \in Int /\ i \in Int
      OBVIOUS
    <3> QED
      BY <2>1, <3>1, SubSeqProperties
  <2>3. e[i + 1] \in Entries
    BY <1>2
  <2> QED
    BY <2>2, <2>3
<1>4. 1 \in 1..Len(e) /\ i + 1 \in 1..Len(e) /\ (i + 1) - 1 = i
  BY <1>1
<1>5. SubSeq(e, 1, i + 1) = SubSeq(e, 1, (i + 1) - 1) \o <<e[i + 1]>>
  BY <1>4, SubSeqRecursiveSecond
<1>6. PICK one \in Seq(Entries) : one = <<x>>
  BY OneIsASeq
<1>7. (w \o s) \o one = w \o (s \o one)
  BY ConcatAssociative, SMTT(30)
<1>8. PICK a \in Seq(Entries) : a = w \o s
  BY ConcatProperties
<1>9. Append(a, x) = a \o <<x>>
  BY AppendIsConcat
<1> QED
  BY <1>3, <1>4, <1>5, <1>6, <1>7, <1>8, <1>9, Zenon

\* What a client writes is its own.
LEMMA OfClientWritten ==
  ASSUME NEW c, NEW k \in Clients, NEW w \in Seq(Entries), NEW p \in Seq(Byte),
         NEW e \in Seq(Entries), Len(e) = Len(p), \A i \in 1..Len(p) : e[i] = <<k, p[i]>>
  PROVE  OfClient(c, w \o e) = IF k = c THEN OfClient(c, w) \o p ELSE OfClient(c, w)
<1>1. PICK n \in Nat : n = Len(p) /\ n = Len(e)
  BY LenProperties
<1>2. PICK u \in Seq(Byte) : u = OfClient(c, w)
  BY OfClientTyped
<1> DEFINE Now(i) == IF k = c THEN u \o SubSeq(p, 1, i) ELSE u
           S == {i \in Nat : i <= n => OfClient(c, w \o SubSeq(e, 1, i)) = Now(i)}
<1>3. 0 \in S
  <2>1. SubSeq(e, 1, 0) = <<>> /\ SubSeq(p, 1, 0) = <<>> /\ w \o <<>> = w /\ u \o <<>> = u
    BY SubSeqEmpty, ConcatEmptySeq
  <2>2. OfClient(c, w \o SubSeq(e, 1, 0)) = Now(0)
    BY <1>2, <2>1, Zenon
  <2>3. 0 \in Nat
    OBVIOUS
  <2> QED
    BY <2>2, <2>3, Zenon
<1>4. ASSUME NEW i \in Nat, i \in S
      PROVE  i + 1 \in S
  <2>0. i + 1 \in Nat
    OBVIOUS
  <2> SUFFICES ASSUME i + 1 <= n
               PROVE  OfClient(c, w \o SubSeq(e, 1, i + 1)) = Now(i + 1)
    BY <2>0, Zenon
  <2>1. i + 1 <= Len(e) /\ i + 1 <= Len(p) /\ i <= n /\ i + 1 \in 1..Len(p)
    BY <1>1
  <2>2. PICK a \in Seq(Entries), x \in Entries :
          a = w \o SubSeq(e, 1, i) /\ x = e[i + 1] /\ w \o SubSeq(e, 1, i + 1) = Append(a, x)
    BY <1>4, <2>1, OneEntryMore, Zenon
  <2>3. PICK s \in Seq(Byte), b \in Byte :
          s = u \o SubSeq(p, 1, i) /\ b = p[i + 1] /\ u \o SubSeq(p, 1, i + 1) = Append(s, b)
    BY <1>4, <2>1, JoinOneMore, Zenon
  <2>4. x = <<k, b>>
    BY <2>1, <2>2, <2>3
  <2>5. OfClient(c, a) = Now(i)
    BY <1>4, <2>1, <2>2, Zenon
  <2>6. OfClient(c, Append(a, x)) = IF k = c THEN Append(OfClient(c, a), b) ELSE OfClient(c, a)
    <3>1. \A v \in Seq(Entries), j \in Clients, d \in Byte :
            OfClient(c, Append(v, <<j, d>>)) = IF j = c THEN Append(OfClient(c, v), d) ELSE OfClient(c, v)
      BY OfClientAppend, Zenon
    <3>2. OfClient(c, Append(a, <<k, b>>)) = IF k = c THEN Append(OfClient(c, a), b) ELSE OfClient(c, a)
      BY <2>2, <2>3, <3>1, ZenonT(60)
    <3> QED
      BY <2>4, <3>2, Zenon
  <2> QED
    BY <2>2, <2>3, <2>5, <2>6, Zenon
<1>5. Nat \subseteq S
  <2> HIDE DEF S
  <2> QED
    BY <1>3, <1>4, NatSetInduction
<1>6. n \in S
  <2> HIDE DEF S
  <2> QED
    BY <1>5
<1>7. OfClient(c, w \o SubSeq(e, 1, n)) = Now(n)
  <2>1. n <= n
    OBVIOUS
  <2> QED
    BY <1>6, <2>1, Zenon
<1>8. SubSeq(e, 1, n) = e /\ SubSeq(p, 1, n) = p
  BY <1>1, SubSeqFull
<1> QED
  BY <1>2, <1>7, <1>8, Zenon

-----------------------------------------------------------------------------
(* Where the data of each client is.                                       *)

Arriving(c) == Arrived(Padding(c), pc[c], units[c], written[c], OnWire(c), Meant(c))

ArrivingInv == \A c \in Clients : Arriving(c)

LEMMA PaddingIs ==
  ASSUME NEW c \in Clients
  PROVE  /\ CR \notin Padding(c)
         /\ Is(c, "telnet") => NUL \in Padding(c)
         /\ scenario.normalizeCRLF /\ ~Is(c, "websocket") => LF \in Padding(c)
BY DEF Padding, CR, NUL, LF

LEMMA MessageIsOneUnit ==
  ASSUME NEW c, Is(c, "websocket"), NEW data \in Seq(Byte), data # <<>>
  PROVE  Bytes(Units(c, data)) = data
<1>1. PICK unit \in UnitsOfInput : unit = [data |-> data, escape |-> FALSE] /\ unit.data = data
  BY UnitTyped
<1>2. Units(c, data) = <<unit>>
  BY <1>1, Zenon DEF Units
<1>3. <<unit>> \o <<>> = <<unit>>
  <2>1. PICK one \in Seq(UnitsOfInput) : one = <<unit>>
    BY OneIsASeq
  <2>2. one \o <<>> = one
    BY ConcatEmptySeq
  <2> QED
    BY <2>1, <2>2, Zenon
<1>4. Bytes(<<unit>> \o <<>>) = unit.data \o Bytes(<<>>)
  BY BytesPrepend, EmptySeq
<1>5. data \o <<>> = data
  BY ConcatEmptySeq
<1> QED
  BY <1>1, <1>2, <1>3, <1>4, <1>5, BytesOfNone, Zenon

\* What is made of the data of a read.
LEMMA UnitsAreAlike ==
  ASSUME NEW c \in Clients, NEW data \in Seq(Byte), Is(c, "websocket") => data # <<>>
  PROVE  Alike(Padding(c), Bytes(Units(c, Unpadded(c, data))), data)
<1>1. CR \notin Padding(c)
  BY PaddingIs
<1>2. PICK rest \in Seq(Byte) : rest = Unpadded(c, data)
  BY DropAfterCRTyped, Zenon DEF Unpadded
<1>3. Alike(Padding(c), rest, data)
  <2>1. CASE Is(c, "telnet")
    <3>1. NUL \in Padding(c) /\ NUL \in Byte
      BY <2>1, PaddingIs, Codes
    <3>2. Alike(Padding(c), DropAfterCR(data, NUL), data)
      BY <1>1, <3>1, DropIsAlike, Zenon
    <3> QED
      BY <1>2, <2>1, <3>2, Zenon DEF Unpadded
  <2>2. CASE ~Is(c, "telnet")
    BY <1>2, <2>2, Zenon DEF Unpadded, Alike
  <2> QED
    BY <2>1, <2>2
<1>4. Alike(Padding(c), Bytes(Units(c, rest)), rest)
  <2>1. CASE Is(c, "websocket")
    <3>1. rest # <<>>
      BY <1>2, <2>1 DEF Unpadded, Is
    <3>2. Bytes(Units(c, rest)) = rest
      BY <2>1, <3>1, MessageIsOneUnit, Zenon
    <3> QED
      BY <3>2, Zenon DEF Alike
  <2>2. CASE ~Is(c, "websocket")
    <3>1. scenario.normalizeCRLF => LF \in Padding(c)
      BY <2>2, PaddingIs
    <3>2. Alike(Padding(c), Bytes(Split(rest, scenario.normalizeCRLF)), rest)
      BY <1>1, <3>1, SplitIsAlike, Zenon
    <3> QED
      BY <2>2, <3>2, Zenon DEF Units
  <2> QED
    BY <2>1, <2>2
<1> QED
  BY <1>2, <1>3, <1>4, AlikeItself, Zenon

LEMMA MeantTyped ==
  ASSUME Shape, NEW c \in Clients
  PROVE  Meant(c) \in Seq(Byte)
BY ConsumedTyped, StreamMeaningTyped, Zenon DEF Meant

LEMMA OnWireTyped ==
  ASSUME Shape, NEW c \in Clients
  PROVE  OnWire(c) = OfClient(c, wire) /\ OnWire(c) \in Seq(Byte)
<1>1. wire \in Seq(Entries)
  BY DEF Shape, Entries
<1>2. OnWire(c) = OfClient(c, wire)
  BY Zenon DEF OnWire, OfClient
<1> QED
  BY <1>1, <1>2, OfClientTyped, Zenon

LEMMA InitArriving == Shape /\ Init => ArrivingInv
<1> SUFFICES ASSUME Shape, Init, NEW c \in Clients
             PROVE  Arriving(c)
  BY DEF ArrivingInv
<1>1. got[c] = 0 /\ pc[c] = "reading" /\ units[c] = <<>> /\ wire = <<>>
  BY DEF Init
<1>2. Consumed(c) = <<>>
  BY <1>1, SubSeqEmpty DEF Consumed
<1>3. Meant(c) = <<>>
  BY <1>2, NothingMeans, Zenon DEF Meant
<1>4. OnWire(c) = <<>>
  BY <1>1, OnWireTyped, OfClientEmpty, Zenon
<1>5. PendingOf("reading", <<>>, written[c]) = <<>>
  BY BytesOfNone DEF PendingOf
<1>6. <<>> \o <<>> = <<>>
  OBVIOUS
<1> QED
  BY <1>1, <1>3, <1>4, <1>5, <1>6 DEF Arriving, Arrived

\* While a client has read nothing more, the same is meant.
LEMMA SameMeant ==
  ASSUME NEW c \in Clients, scenario' = scenario, got'[c] = got[c]
  PROVE  /\ Meant(c)' = Meant(c) /\ Padding(c)' = Padding(c)
         /\ \A kind : Is(c, kind)' <=> Is(c, kind)
BY DEF Meant, Consumed, Input, Is, Padding

\* What a read adds: data, and the units made of it.
LEMMA ReadAdds ==
  ASSUME Shape, TalkInv, NEW c \in Clients, ReadSome(c)
  PROVE  \E data \in Seq(Byte), cuts \in Seq(UnitsOfInput) :
           /\ Is(c, "websocket") => data # <<>>
           /\ cuts = Units(c, Unpadded(c, data))
           /\ Meant(c)' = Meant(c) \o data
           /\ pc[c] = "reading" /\ pc'[c] \notin {"record", "left"}
           /\ pc'[c] = "reading" => cuts = <<>>
           /\ units'[c] = cuts /\ written'[c] = written[c] /\ OnWire(c)' = OnWire(c)
           /\ scenario' = scenario
           /\ cut' = [cut EXCEPT ![c] =
                \/ @
                \/ data # <<>> /\ Last(data) = CR
                \/ Unpadded(c, data) # <<>> /\ Last(Unpadded(c, data)) = CR
                \/ \E i \in DOMAIN cuts :
                     /\ cuts[i].escape
                     /\ \E j \in DOMAIN cuts[i].data : cuts[i].data[j] = CR]
<1>0. PICK n \in 1..(Len(Input(c)) - got[c]) : Read(c, n)
  BY DEF ReadSome
<1>1. PICK input \in Seq(Byte) : /\ input = SubSeq(Input(c), got[c] + 1, got[c] + n)
                                 /\ Consumed(c)' = Consumed(c) \o input
                                 /\ input # <<>>
  <2>1. PICK input \in Seq(Byte) : /\ input = SubSeq(Input(c), got[c] + 1, got[c] + n)
                                   /\ Consumed(c)' = Consumed(c) \o input
    BY <1>0, ConsumedGrows
  <2>2. Input(c) \in Seq(Byte) /\ got[c] \in Nat /\ Len(Input(c)) \in Nat
    BY ScenarioTyped, LenProperties DEF Shape
  <2>3. \A k \in (got[c] + 1)..(got[c] + n) : Input(c)[k] \in Byte
    BY <2>2, ElementOfSeq
  <2>4. Len(input) = n
    BY <2>1, <2>2, <2>3, SubSeqProperties, SMTT(30)
  <2> QED
    <3>1. Len(<<>>) = 0 /\ n # 0
      BY EmptySeq
    <3> QED
      BY <2>1, <2>4, <3>1, Zenon
<1>2. PICK d \in Decodings : d = Decoded(c, input)
  BY DecodedTyped
<1>3. PICK cuts \in Seq(UnitsOfInput) : cuts = Units(c, Unpadded(c, d.data))
  BY <1>1, <1>2, UnitsTyped, Zenon
<1>4. /\ pc[c] = "reading"
      /\ units' = [units EXCEPT ![c] = cuts]
      /\ pc' = [pc EXCEPT ![c] = CASE d.reply # <<>> -> "replying"
                                   [] d.reply = <<>> /\ cuts # <<>> -> "writing"
                                   [] d.reply = <<>> /\ cuts = <<>> -> "reading"]
      /\ got' = [got EXCEPT ![c] = @ + n]
      /\ UNCHANGED <<scenario, written, wire>>
  BY <1>0, <1>1, <1>2, <1>3, Zenon DEF Read, portVars
<1>5. PICK place \in {"replying", "writing", "reading"} :
        /\ pc' = [pc EXCEPT ![c] = place] /\ (place = "reading" => cuts = <<>>)
        /\ place \notin {"record", "left"}
  <2>1. CASE d.reply # <<>>
    BY <1>4, <2>1
  <2>2. CASE d.reply = <<>> /\ cuts # <<>>
    BY <1>4, <2>2
  <2>3. CASE d.reply = <<>> /\ cuts = <<>>
    BY <1>4, <2>3
  <2> QED
    BY <2>1, <2>2, <2>3, Zenon
<1>6. PICK data \in Seq(Byte), before \in Seq(Byte) : data = d.data /\ before = Meant(c)
  BY MeantTyped DEF Decodings
<1>7. Meant(c)' = before \o data
  <2>1. Is(c, "telnet")' <=> Is(c, "telnet")
    BY <1>4 DEF Is
  <2>2. CASE Is(c, "telnet")
    <3>1. Follows(Consumed(c), decoder[c])
      BY <2>2 DEF TalkInv, Talk, TalkIs
    <3>2. decoder[c] \in Decoders /\ d = Decode(decoder[c], input) /\ Consumed(c) \in Seq(Byte)
      BY <1>2, <2>2, ConsumedTyped DEF Decoded, Shape
    <3>3. Heard(Consumed(c), Consumed(c) \o input, d)
      BY <3>1, <3>2, DecodeFollows, Zenon
    <3>4. DataIn(Consumed(c) \o input) = DataIn(Consumed(c)) \o d.data
      BY <3>3 DEF Heard
    <3> QED
      BY <1>1, <1>6, <2>1, <2>2, <3>4 DEF Meant
  <2>3. CASE ~Is(c, "telnet")
    <3>1. d.data = input
      BY <1>2, <2>3 DEF Decoded, AllData
    <3> QED
      BY <1>1, <1>6, <2>1, <2>3, <3>1 DEF Meant
  <2> QED
    BY <2>2, <2>3
<1>8. Is(c, "websocket") => data # <<>>
  BY <1>1, <1>2, <1>6 DEF Decoded, AllData, Is
<1>9. /\ pc'[c] = place /\ units'[c] = cuts /\ written'[c] = written[c] /\ OnWire(c)' = OnWire(c)
  BY <1>4, <1>5 DEF Shape, OnWire
<1>10. cut' = [cut EXCEPT ![c] =
                \/ @
                \/ data # <<>> /\ Last(data) = CR
                \/ Unpadded(c, data) # <<>> /\ Last(Unpadded(c, data)) = CR
                \/ \E i \in DOMAIN cuts :
                     /\ cuts[i].escape
                     /\ \E j \in DOMAIN cuts[i].data : cuts[i].data[j] = CR]
  BY <1>0, <1>1, <1>2, <1>3, <1>6, Zenon DEF Read
<1>11. cuts = Units(c, Unpadded(c, data)) /\ Meant(c)' = Meant(c) \o data
  BY <1>3, <1>6, <1>7, Zenon
<1>12. /\ pc[c] = "reading" /\ pc'[c] \notin {"record", "left"}
       /\ pc'[c] = "reading" => cuts = <<>>
       /\ scenario' = scenario
  BY <1>4, <1>5, <1>9
<1> QED
  BY <1>8, <1>9, <1>10, <1>11, <1>12

(* Any step of a client but a read, whatever is held to be its data.       *)

\* A step between two that write to the port.
LEMMA GoesOnArrived ==
  ASSUME Shape, Busy, NEW c \in Clients, pc[c] \notin {"record", "left"},
         NEW place, place \notin {"record", "left"}, place = "reading" => units[c] = <<>>,
         pc' = [pc EXCEPT ![c] = place], UNCHANGED <<units, written, wire>>,
         NEW padding, NEW meant, Arrived(padding, pc[c], units[c], written[c], OnWire(c), meant)
  PROVE  Arrived(padding, pc'[c], units'[c], written'[c], OnWire(c)', meant)
<1>1. Arrived(padding, place, units[c], written[c], OnWire(c), meant)
  BY ArrivedGoesOn, Zenon
<1>2. OnWire(c)' = OnWire(c) /\ pc'[c] = place
  BY DEF OnWire, Shape
<1> QED
  BY <1>1, <1>2

\* The handler ends.
LEMMA GoneArrived ==
  ASSUME Shape, Busy, NEW c \in Clients, pc[c] # "left", Gone(c), UNCHANGED <<written, wire>>,
         NEW padding, NEW meant, Arrived(padding, pc[c], units[c], written[c], OnWire(c), meant)
  PROVE  Arrived(padding, pc'[c], units'[c], written'[c], OnWire(c)', meant)
<1>1. pc' = [pc EXCEPT ![c] = "left"] /\ units' = [units EXCEPT ![c] = <<>>]
  BY DEF Gone
<1>2. units[c] \in Seq(UnitsOfInput) /\ written[c] \in Nat /\ OnWire(c) \in Seq(Byte)
  BY OnWireTyped DEF Shape
<1>3. Arrived(padding, "left", <<>>, written[c], OnWire(c), meant)
  BY <1>2, ArrivedEnds, Zenon
<1>4. OnWire(c)' = OnWire(c) /\ pc'[c] = "left" /\ units'[c] = <<>>
  BY <1>1 DEF OnWire, Shape
<1> QED
  BY <1>3, <1>4

\* port.Write puts on the wire what is the client's own.
LEMMA PortWriteOnWire ==
  ASSUME Shape, Busy, NEW c \in Clients, PortWrite(c)
  PROVE  \E n \in 0..Len(Head(units[c]).data), p \in Seq(Byte) :
           /\ written' = [written EXCEPT ![c] = n]
           /\ p = SubSeq(Head(units[c]).data, 1, n)
           /\ \A k \in Clients : OnWire(k)' = IF c = k THEN OnWire(k) \o p ELSE OnWire(k)
<1>1. pc[c] = "port"
  BY DEF PortWrite
<1>2. PICK n \in 0..Len(Head(units[c]).data) :
           /\ written' = [written EXCEPT ![c] = n]
           /\ wire' = wire \o [i \in 1..n |-> <<c, Piece(c, n)[i]>>]
  BY PortWriteStep, Zenon
<1>3. PICK p \in Seq(Byte) : p = Piece(c, n) /\ Len(p) = n /\ n \in Nat
  BY <1>1, <1>2, UnitInHand
<1>4. PICK e \in Seq(Entries) : e = [i \in 1..n |-> <<c, p[i]>>] /\ Len(e) = n
  <2>1. \A i \in 1..n : p[i] \in Byte
    BY <1>3, ElementOfSeq
  <2>2. \A i \in 1..n : <<c, p[i]>> \in Entries
    BY <2>1 DEF Entries
  <2>3. PICK e : e = [i \in 1..n |-> <<c, p[i]>>]
    OBVIOUS
  <2>4. e \in Seq(Entries) /\ Len(e) = n
    BY <1>3, <2>2, <2>3, ElementsMakeSeq
  <2> QED
    BY <2>3, <2>4
<1>5. wire \in Seq(Entries) /\ wire' = wire \o e
  BY <1>2, <1>3, <1>4 DEF Shape, Entries
<1>6. ASSUME NEW k \in Clients
      PROVE  OnWire(k)' = IF c = k THEN OnWire(k) \o p ELSE OnWire(k)
  <2>1. \A i \in 1..Len(p) : e[i] = <<c, p[i]>>
    BY <1>3, <1>4
  <2>2. Len(e) = Len(p)
    BY <1>3, <1>4
  <2>3. OfClient(k, wire \o e) = IF c = k THEN OfClient(k, wire) \o p ELSE OfClient(k, wire)
    BY <1>5, <2>1, <2>2, OfClientWritten, ZenonT(60)
  <2>4. OnWire(k)' = OfClient(k, wire') /\ OnWire(k) = OfClient(k, wire)
    BY Zenon DEF OnWire, OfClient
  <2> QED
    BY <1>5, <2>3, <2>4, Zenon
<1> QED
  BY <1>2, <1>3, <1>6, Zenon DEF Piece

LEMMA PortWriteArrived ==
  ASSUME Shape, Busy, NEW c \in Clients, PortWrite(c),
         NEW padding, NEW meant, Arrived(padding, pc[c], units[c], written[c], OnWire(c), meant)
  PROVE  Arrived(padding, pc'[c], units'[c], written'[c], OnWire(c)', meant)
<1>1. /\ pc[c] = "port"
      /\ pc' = [pc EXCEPT ![c] = "record"]
      /\ units' = units
  BY DEF PortWrite
<1>2. PICK n \in 0..Len(Head(units[c]).data), p \in Seq(Byte) :
           /\ written' = [written EXCEPT ![c] = n]
           /\ p = SubSeq(Head(units[c]).data, 1, n)
           /\ \A k \in Clients : OnWire(k)' = IF c = k THEN OnWire(k) \o p ELSE OnWire(k)
  BY PortWriteOnWire, Zenon
<1>3. units[c] \in Seq(UnitsOfInput) /\ units[c] # <<>> /\ OnWire(c) \in Seq(Byte)
  BY <1>1, OnWireTyped, UnitInHand
<1>4. Arrived(padding, "record", units[c], n, OnWire(c) \o p, meant)
  BY <1>1, <1>2, <1>3, ArrivedWrites, Zenon
<1>5. OnWire(c)' = OnWire(c) \o p /\ pc'[c] = "record" /\ written'[c] = n /\ units'[c] = units[c]
  BY <1>1, <1>2 DEF Shape
<1> QED
  BY <1>4, <1>5

LEMMA RecordArrived ==
  ASSUME Shape, Busy, NEW c \in Clients, Record(c),
         NEW padding, NEW meant, Arrived(padding, pc[c], units[c], written[c], OnWire(c), meant)
  PROVE  Arrived(padding, pc'[c], units'[c], written'[c], OnWire(c)', meant)
<1>1. pc[c] = "record" /\ UNCHANGED <<written, wire>>
  BY DEF Record
<1>2. CASE written[c] = Len(Head(units[c]).data)
  <2>1. /\ units' = [units EXCEPT ![c] = Tail(@)]
        /\ pc' = [pc EXCEPT ![c] = IF Len(units[c]) = 1 THEN "reading" ELSE "writing"]
    BY <1>2 DEF Record
  <2>2. units[c] \in Seq(UnitsOfInput) /\ units[c] # <<>>
    BY <1>1, UnitInHand
  <2>3. PICK place \in {"reading", "writing"} :
          place = (IF Len(units[c]) = 1 THEN "reading" ELSE "writing")
    OBVIOUS
  <2>4. place = "reading" => Tail(units[c]) = <<>>
    <3>1. Tail(units[c]) \in Seq(UnitsOfInput) /\ Len(Tail(units[c])) = Len(units[c]) - 1
      BY <2>2, HeadTailProperties
    <3>2. ASSUME place = "reading"
          PROVE  Len(Tail(units[c])) = 0
      BY <2>3, <3>1, <3>2
    <3> QED
      BY <3>1, <3>2, EmptySeq, Zenon
  <2>5. Arrived(padding, place, Tail(units[c]), written[c], OnWire(c), meant)
    BY <1>1, <1>2, <2>2, <2>3, <2>4, ArrivedRecords
  <2>6. OnWire(c)' = OnWire(c) /\ pc'[c] = place /\ units'[c] = Tail(units[c])
    BY <1>1, <2>1, <2>3 DEF OnWire, Shape
  <2> QED
    BY <1>1, <2>5, <2>6
<1>3. CASE written[c] # Len(Head(units[c]).data)
  BY <1>1, <1>3, GoneArrived DEF Record
<1> QED
  BY <1>2, <1>3

\* What a step of one client does not change of another.
LEMMA OthersStay ==
  ASSUME Shape, Busy, NEW c \in Clients,
         \/ ReadSome(c) \/ Reply(c) \/ Leave(c) \/ LockWrite(c)
         \/ PortWrite(c) \/ Record(c) \/ Show(c),
         NEW k \in Clients, k # c
  PROVE  /\ got'[k] = got[k] /\ pc'[k] = pc[k] /\ units'[k] = units[k] /\ written'[k] = written[k]
         /\ OnWire(k)' = OnWire(k)
         /\ DOMAIN cut = Clients => cut'[k] = cut[k]
<1>1. CASE ReadSome(c)
  <2>1. PICK n \in 1..(Len(Input(c)) - got[c]) : Read(c, n)
    BY <1>1 DEF ReadSome
  <2>2. /\ \E x : got' = [got EXCEPT ![c] = x]
        /\ \E x : pc' = [pc EXCEPT ![c] = x]
        /\ \E x : units' = [units EXCEPT ![c] = x]
        /\ \E x : cut' = [cut EXCEPT ![c] = x]
        /\ UNCHANGED <<written, wire>>
    BY <2>1 DEF Read, portVars
  <2> QED
    BY <2>2 DEF Shape, OnWire
<1>2. CASE Reply(c) \/ LockWrite(c)
  <2>1. (\E x : pc' = [pc EXCEPT ![c] = x]) /\ UNCHANGED <<got, units, written, wire, cut>>
    BY <1>2 DEF Reply, LockWrite, portVars
  <2> QED
    BY <2>1 DEF Shape, OnWire
<1>3. CASE Leave(c)
  BY <1>3 DEF Leave, Gone, portVars, Shape, OnWire
<1>4. CASE PortWrite(c)
  <2>1. (\E n : written' = [written EXCEPT ![c] = n]) /\ OnWire(k)' = OnWire(k)
    BY <1>4, PortWriteOnWire
  <2>2. pc' = [pc EXCEPT ![c] = "record"] /\ UNCHANGED <<got, units, cut>>
    BY <1>4 DEF PortWrite
  <2> QED
    BY <2>1, <2>2 DEF Shape
<1>5. CASE Record(c)
  <2>1. /\ \E x : pc' = [pc EXCEPT ![c] = x]
        /\ \E x : units' = [units EXCEPT ![c] = x]
        /\ UNCHANGED <<got, written, wire, cut>>
    BY <1>5 DEF Record, Gone
  <2> QED
    BY <2>1 DEF Shape, OnWire
<1>6. CASE Show(c)
  BY <1>6 DEF Show, inVars, portVars, OnWire
<1> QED
  BY <1>1, <1>2, <1>3, <1>4, <1>5, <1>6

\* But for a read, what is on the wire and what is to be written stay the same
\* together.
LEMMA StepKeeps ==
  ASSUME InputInv, [Next]_vars, NEW c \in Clients, ~ReadSome(c)
  PROVE  /\ scenario' = scenario /\ got'[c] = got[c]
         /\ DOMAIN cut = Clients => cut'[c] = cut[c]
         /\ \A padding, meant : Arrived(padding, pc[c], units[c], written[c], OnWire(c), meant)
              => Arrived(padding, pc'[c], units'[c], written'[c], OnWire(c)', meant)
<1>1. Shape /\ Busy
  BY DEF InputInv
<1>2. CASE Reply(c) \/ LockWrite(c)
  <2>1. /\ pc[c] \notin {"record", "left"}
        /\ \E place : /\ place \notin {"record", "left"} /\ (place = "reading" => units[c] = <<>>)
                      /\ pc' = [pc EXCEPT ![c] = place]
        /\ UNCHANGED <<scenario, got, units, written, wire, cut>>
    BY <1>2 DEF Reply, LockWrite, portVars
  <2> QED
    BY <1>1, <2>1, GoesOnArrived
<1>3. CASE Leave(c)
  <2>1. pc[c] # "left" /\ Gone(c) /\ UNCHANGED <<scenario, got, written, wire, cut>>
    BY <1>3 DEF Leave, portVars
  <2> QED
    BY <1>1, <2>1, GoneArrived
<1>4. CASE PortWrite(c)
  <2>1. UNCHANGED <<scenario, got, cut>>
    BY <1>4 DEF PortWrite
  <2> QED
    BY <1>1, <1>4, <2>1, PortWriteArrived
<1>5. CASE Record(c)
  <2>1. UNCHANGED <<scenario, got, cut>>
    BY <1>5 DEF Record
  <2> QED
    BY <1>1, <1>5, <2>1, RecordArrived
<1>6. CASE (\E k \in Clients : Show(k)) \/ Tick \/ UNCHANGED vars
  <2>1. UNCHANGED <<scenario, got, pc, units, written, wire, cut>>
    BY <1>6 DEF Show, Tick, vars, inVars, portVars
  <2>2. OnWire(c)' = OnWire(c)
    BY <2>1 DEF OnWire
  <2> QED
    BY <2>1, <2>2
<1>7. ASSUME NEW k \in Clients, k # c,
             ReadSome(k) \/ Reply(k) \/ Leave(k) \/ LockWrite(k) \/ PortWrite(k) \/ Record(k)
      PROVE  /\ scenario' = scenario /\ got'[c] = got[c]
             /\ DOMAIN cut = Clients => cut'[c] = cut[c]
             /\ \A padding, meant : Arrived(padding, pc[c], units[c], written[c], OnWire(c), meant)
                  => Arrived(padding, pc'[c], units'[c], written'[c], OnWire(c)', meant)
  <2>1. scenario' = scenario
    BY <1>7 DEF ReadSome, Read, Reply, Leave, LockWrite, PortWrite, Record
  <2>2. /\ got'[c] = got[c] /\ pc'[c] = pc[c] /\ units'[c] = units[c] /\ written'[c] = written[c]
        /\ OnWire(c)' = OnWire(c)
        /\ DOMAIN cut = Clients => cut'[c] = cut[c]
    BY <1>1, <1>7, OthersStay
  <2> QED
    BY <2>1, <2>2
<1> QED
  BY <1>2, <1>3, <1>4, <1>5, <1>6, <1>7 DEF Next

LEMMA StepArriving == InputInv /\ TalkInv /\ ArrivingInv /\ [Next]_vars => ArrivingInv'
<1> SUFFICES ASSUME InputInv, TalkInv, ArrivingInv, [Next]_vars, NEW c \in Clients
             PROVE  Arriving(c)'
  BY DEF ArrivingInv
<1>1. Shape /\ Arrived(Padding(c), pc[c], units[c], written[c], OnWire(c), Meant(c))
  BY DEF InputInv, ArrivingInv, Arriving
<1>2. CASE ReadSome(c)
  <2>1. PICK data \in Seq(Byte), cuts \in Seq(UnitsOfInput) :
           /\ Is(c, "websocket") => data # <<>>
           /\ cuts = Units(c, Unpadded(c, data))
           /\ Meant(c)' = Meant(c) \o data
           /\ pc[c] = "reading" /\ pc'[c] \notin {"record", "left"}
           /\ pc'[c] = "reading" => cuts = <<>>
           /\ units'[c] = cuts /\ written'[c] = written[c] /\ OnWire(c)' = OnWire(c)
           /\ scenario' = scenario
    BY <1>1, <1>2, ReadAdds
  <2>2. Alike(Padding(c), Bytes(cuts), data)
    BY <2>1, UnitsAreAlike
  <2>3. OnWire(c) \in Seq(Byte) /\ Meant(c) \in Seq(Byte)
    BY <1>1, OnWireTyped, MeantTyped
  <2>4. Arrived(Padding(c), pc'[c], cuts, written[c], OnWire(c), Meant(c) \o data)
    BY <1>1, <2>1, <2>2, <2>3, ArrivedReads
  <2>5. Padding(c)' = Padding(c)
    BY <2>1 DEF Padding, Is
  <2> QED
    BY <2>1, <2>4, <2>5 DEF Arriving
<1>3. CASE ~ReadSome(c)
  <2>1. scenario' = scenario /\ got'[c] = got[c]
    BY <1>3, StepKeeps
  <2>2. Arrived(Padding(c), pc'[c], units'[c], written'[c], OnWire(c)', Meant(c))
    BY <1>1, <1>3, StepKeeps
  <2>3. Meant(c)' = Meant(c) /\ Padding(c)' = Padding(c)
    BY <2>1, SameMeant
  <2> QED
    BY <2>2, <2>3 DEF Arriving
<1> QED
  BY <1>2, <1>3

LEMMA ArrivingInvariance == Spec => []ArrivingInv
<1>1. Init => ArrivingInv
  BY InitShape, InitArriving
<1> QED
  BY <1>1, StepArriving, Invariance, TalkInvariance, PTL DEF Spec, Safety

-----------------------------------------------------------------------------
(* What bytes.ReplaceAll makes of a row of bytes in parts.                 *)

EndsInCR(data) == data # <<>> /\ Last(data) = CR

LEMMA EndOfAppend ==
  \A w \in Seq(Byte), e \in Byte : EndsInCR(Append(w, e)) <=> e = CR
<1> SUFFICES ASSUME NEW w \in Seq(Byte), NEW e \in Byte
             PROVE  EndsInCR(Append(w, e)) <=> e = CR
  OBVIOUS
<1>1. PICK v \in Seq(Byte) : v = Append(w, e) /\ v # <<>> /\ Len(v) = Len(w) + 1 /\ v[Len(w) + 1] = e
  BY AppendProperties
<1> QED
  BY <1>1 DEF EndsInCR, Last

LEMMA EndOfJoin ==
  ASSUME NEW a \in Seq(Byte), NEW b \in Seq(Byte), b # <<>>
  PROVE  EndsInCR(a \o b) <=> EndsInCR(b)
<1>1. PICK m \in Nat, n \in Nat : m = Len(a) /\ n = Len(b) /\ n # 0
  BY EmptySeq, LenProperties
<1>2. PICK w \in Seq(Byte) : w = a \o b /\ Len(w) = m + n /\ \A i \in 1..(m + n) : w[i] = IF i <= m THEN a[i] ELSE b[i - m]
  <2>1. /\ a \o b \in Seq(Byte)
        /\ Len(a \o b) = Len(a) + Len(b)
        /\ \A i \in 1..(Len(a) + Len(b)) : (a \o b)[i] = IF i <= Len(a) THEN a[i] ELSE b[i - Len(a)]
    BY ConcatProperties
  <2> QED
    BY <1>1, <2>1, Zenon
<1>3. w[m + n] = b[n]
  <2>1. m + n \in 1..(m + n) /\ ~(m + n <= m) /\ (m + n) - m = n
    BY <1>1
  <2> QED
    BY <1>2, <2>1
<1>4. w # <<>>
  <2>1. Len(<<>>) = 0 /\ m + n # 0
    BY <1>1, EmptySeq
  <2> QED
    BY <1>2, <2>1
<1>5. Last(w) = Last(b)
  BY <1>1, <1>2, <1>3, Zenon DEF Last
<1> QED
  BY <1>2, <1>4, <1>5, Zenon DEF EndsInCR

LEMMA DropOfNothing ==
  ASSUME NEW byte
  PROVE  DropAfterCR(<<>>, byte) = <<>>
<1>1. PICK data \in Seq(Byte) : data = <<>> /\ Len(data) = 0
  BY EmptySeq
<1>2. PICK f : Keeps(f, data, byte, 0) /\ DropAfterCR(data, byte) = f[0]
  BY <1>1, DropRuns, Zenon
<1>3. f[0] = <<>>
  BY <1>2 DEF Keeps
<1> QED
  BY <1>1, <1>2, <1>3, Zenon

LEMMA DropAppend ==
  ASSUME NEW byte
  PROVE  \A w \in Seq(Byte), e \in Byte :
           DropAfterCR(Append(w, e), byte) = IF EndsInCR(w) /\ e = byte THEN DropAfterCR(w, byte)
                                             ELSE Append(DropAfterCR(w, byte), e)
<1> SUFFICES ASSUME NEW w \in Seq(Byte), NEW e \in Byte
             PROVE  DropAfterCR(Append(w, e), byte) = IF EndsInCR(w) /\ e = byte THEN DropAfterCR(w, byte)
                                                      ELSE Append(DropAfterCR(w, byte), e)
  OBVIOUS
<1>1. PICK n \in Nat : n = Len(w)
  BY LenProperties
<1>2. PICK more \in Seq(Byte) : /\ more = Append(w, e) /\ Len(more) = n + 1
                                /\ \A i \in 1..n : more[i] = w[i]
                                /\ more[n + 1] = e
  BY <1>1, AppendProperties
<1>3. PICK f : Keeps(f, w, byte, n) /\ DropAfterCR(w, byte) = f[n]
  BY <1>1, DropRuns, Zenon
<1>4. PICK g : Keeps(g, more, byte, n + 1) /\ DropAfterCR(more, byte) = g[n + 1]
  BY <1>2, DropRuns, Zenon
<1>5. /\ f[0] = <<>>
      /\ \A i \in 1..n : f[i] = IF i > 1 /\ w[i] = byte /\ w[i - 1] = CR
                                THEN f[i - 1] ELSE Append(f[i - 1], w[i])
  BY <1>3 DEF Keeps
<1>6. /\ g[0] = <<>>
      /\ \A i \in 1..(n + 1) : g[i] = IF i > 1 /\ more[i] = byte /\ more[i - 1] = CR
                                      THEN g[i - 1] ELSE Append(g[i - 1], more[i])
  BY <1>4 DEF Keeps
<1> DEFINE S == {i \in Nat : i <= n => f[i] = g[i]}
<1>7. 0 \in S
  BY <1>5, <1>6
<1>8. ASSUME NEW i \in Nat, i \in S
      PROVE  i + 1 \in S
  <2>0. i + 1 \in Nat
    OBVIOUS
  <2> SUFFICES ASSUME i + 1 <= n
               PROVE  f[i + 1] = g[i + 1]
    BY <2>0, Zenon
  <2>1. i <= n /\ i + 1 \in 1..n /\ i + 1 \in 1..(n + 1) /\ (i + 1) - 1 = i
    OBVIOUS
  <2>2. f[i] = g[i] /\ w[i + 1] = more[i + 1]
    BY <1>2, <1>8, <2>1
  <2>3. i + 1 > 1 => w[i] = more[i]
    BY <1>2, <2>1
  <2>4. f[i + 1] = IF i + 1 > 1 /\ w[i + 1] = byte /\ w[i] = CR THEN f[i] ELSE Append(f[i], w[i + 1])
    BY <1>5, <2>1
  <2>5. g[i + 1] = IF i + 1 > 1 /\ more[i + 1] = byte /\ more[i] = CR THEN g[i] ELSE Append(g[i], more[i + 1])
    BY <1>6, <2>1
  <2> QED
    BY <2>2, <2>3, <2>4, <2>5, Zenon
<1>9. Nat \subseteq S
  <2> HIDE DEF S
  <2> QED
    BY <1>7, <1>8, NatSetInduction
<1>10. f[n] = g[n]
  BY <1>9
<1>11. n + 1 > 1 /\ more[n] = CR <=> EndsInCR(w)
  <2>1. CASE n = 0
    <3>1. w = <<>>
      BY <1>1, <2>1, EmptySeq
    <3> QED
      BY <2>1, <3>1 DEF EndsInCR
  <2>2. CASE n # 0
    <3>1. w # <<>>
      BY <1>1, <2>2, EmptySeq
    <3>2. n \in 1..n /\ n + 1 > 1
      BY <2>2
    <3>3. more[n] = Last(w)
      BY <1>1, <1>2, <3>2 DEF Last
    <3> QED
      BY <3>1, <3>2, <3>3, Zenon DEF EndsInCR
  <2> QED
    BY <2>1, <2>2
<1>12. g[n + 1] = IF EndsInCR(w) /\ e = byte THEN g[n] ELSE Append(g[n], e)
  <2>1. n + 1 \in 1..(n + 1) /\ (n + 1) - 1 = n
    OBVIOUS
  <2>2. g[n + 1] = IF n + 1 > 1 /\ more[n + 1] = byte /\ more[n] = CR THEN g[n] ELSE Append(g[n], more[n + 1])
    BY <1>6, <2>1
  <2> QED
    BY <1>2, <1>11, <2>2, Zenon
<1> QED
  BY <1>2, <1>3, <1>4, <1>10, <1>12, Zenon

\* Part by part, unless CR and the byte after it come in two.
LEMMA DropJoin ==
  ASSUME NEW byte, NEW a \in Seq(Byte), NEW b \in Seq(Byte), EndsInCR(a) => b = <<>> \/ b[1] # byte,
         NEW w, Joins(w, a, b)
  PROVE  DropAfterCR(w, byte) = DropAfterCR(a, byte) \o DropAfterCR(b, byte)
<1>1. PICK n \in Nat : n = Len(b)
  BY LenProperties
<1>2. PICK d \in Seq(Byte) : d = DropAfterCR(a, byte)
  BY DropAfterCRTyped
<1>3. \A v \in Seq(Byte), e \in Byte :
        DropAfterCR(Append(v, e), byte) = IF EndsInCR(v) /\ e = byte THEN DropAfterCR(v, byte)
                                          ELSE Append(DropAfterCR(v, byte), e)
  BY DropAppend, Zenon
<1> DEFINE S == {i \in Nat : i <= n => DropAfterCR(a \o SubSeq(b, 1, i), byte) = d \o DropAfterCR(SubSeq(b, 1, i), byte)}
<1>4. 0 \in S
  <2>1. a \o <<>> = a /\ d \o <<>> = d
    BY ConcatEmptySeq
  <2>2. DropAfterCR(a \o SubSeq(b, 1, 0), byte) = d \o DropAfterCR(SubSeq(b, 1, 0), byte)
    BY <1>2, <2>1, WholeOf, DropOfNothing, Zenon
  <2>3. 0 \in Nat
    OBVIOUS
  <2> QED
    BY <2>2, <2>3, Zenon
<1>5. ASSUME NEW i \in Nat, i \in S
      PROVE  i + 1 \in S
  <2>0. i + 1 \in Nat
    OBVIOUS
  <2> SUFFICES ASSUME i + 1 <= n
               PROVE  DropAfterCR(a \o SubSeq(b, 1, i + 1), byte) = d \o DropAfterCR(SubSeq(b, 1, i + 1), byte)
    BY <2>0, Zenon
  <2>1. i + 1 <= Len(b) /\ i <= n
    BY <1>1
  <2>2. PICK u \in Seq(Byte), x \in Byte :
          u = a \o SubSeq(b, 1, i) /\ x = b[i + 1] /\ a \o SubSeq(b, 1, i + 1) = Append(u, x)
    BY <1>5, <2>1, JoinOneMore, Zenon
  <2>3. PICK v \in Seq(Byte), y \in Byte : v = SubSeq(b, 1, i) /\ y = b[i + 1] /\ SubSeq(b, 1, i + 1) = Append(v, y)
    BY <1>5, <2>1, OneByteMore, ZenonT(60)
  <2>4. DropAfterCR(u, byte) = d \o DropAfterCR(v, byte)
    BY <1>5, <2>1, <2>2, <2>3, Zenon
  <2>5. EndsInCR(u) /\ x = byte <=> EndsInCR(v) /\ y = byte
    <3>1. CASE i = 0
      <4>1. v = <<>> /\ u = a /\ x = b[1] /\ b # <<>>
        <5>1. SubSeq(b, 1, 0) = <<>> /\ a \o <<>> = a
          BY WholeOf, ConcatEmptySeq
        <5>2. b # <<>>
          BY <2>1, <3>1, EmptySeq
        <5> QED
          BY <2>2, <2>3, <3>1, <5>1, <5>2
      <4> QED
        BY <4>1 DEF EndsInCR
    <3>2. CASE i # 0
      <4>1. v # <<>>
        <5>1. Len(v) = i
          <6>1. \A k \in 1..i : b[k] \in Byte
            BY <1>1, <2>1, ElementOfSeq
          <6> QED
            BY <2>3, <6>1, SubSeqProperties
        <5>2. Len(<<>>) = 0
          BY EmptySeq
        <5> QED
          BY <3>2, <5>1, <5>2
      <4>2. EndsInCR(a \o v) <=> EndsInCR(v)
        BY <4>1, EndOfJoin
      <4> QED
        BY <2>2, <2>3, <4>2, Zenon
    <3> QED
      BY <3>1, <3>2
  <2>6. DropAfterCR(Append(u, x), byte) = IF EndsInCR(u) /\ x = byte THEN DropAfterCR(u, byte)
                                          ELSE Append(DropAfterCR(u, byte), x)
    BY <1>3
  <2>7. DropAfterCR(Append(v, y), byte) = IF EndsInCR(v) /\ y = byte THEN DropAfterCR(v, byte)
                                          ELSE Append(DropAfterCR(v, byte), y)
    BY <1>3
  <2>8. d \o Append(DropAfterCR(v, byte), y) = Append(d \o DropAfterCR(v, byte), y)
    <3>1. PICK k \in Seq(Byte) : k = DropAfterCR(v, byte)
      BY DropAfterCRTyped
    <3>2. \A r \in Seq(Byte), s \in Seq(Byte), z \in Byte : r \o Append(s, z) = Append(r \o s, z)
      BY JoinAppend, ZenonT(60)
    <3> QED
      BY <3>1, <3>2
  <2> QED
    BY <2>2, <2>3, <2>4, <2>5, <2>6, <2>7, <2>8, Zenon
<1>6. Nat \subseteq S
  <2> HIDE DEF S
  <2> QED
    BY <1>4, <1>5, NatSetInduction
<1>7. n \in S
  <2> HIDE DEF S
  <2> QED
    BY <1>6
<1>8. DropAfterCR(a \o SubSeq(b, 1, n), byte) = d \o DropAfterCR(SubSeq(b, 1, n), byte)
  <2>1. n <= n
    OBVIOUS
  <2> QED
    BY <1>7, <2>1, Zenon
<1>9. SubSeq(b, 1, n) = b
  BY <1>1, WholeOf, Zenon
<1> QED
  BY <1>2, <1>8, <1>9, Zenon DEF Joins

\* Where there is no CR, nothing is dropped.
LEMMA DropNothing ==
  ASSUME NEW byte, NEW s \in Seq(Byte), \A i \in DOMAIN s : s[i] # CR
  PROVE  DropAfterCR(s, byte) = s /\ ~EndsInCR(s)
<1>1. PICK n \in Nat : n = Len(s) /\ DOMAIN s = 1..n
  BY LenProperties
<1>2. \A v \in Seq(Byte), e \in Byte :
        /\ DropAfterCR(Append(v, e), byte) = IF EndsInCR(v) /\ e = byte THEN DropAfterCR(v, byte)
                                             ELSE Append(DropAfterCR(v, byte), e)
        /\ EndsInCR(Append(v, e)) <=> e = CR
  <2>1. \A v \in Seq(Byte), e \in Byte :
          DropAfterCR(Append(v, e), byte) = IF EndsInCR(v) /\ e = byte THEN DropAfterCR(v, byte)
                                            ELSE Append(DropAfterCR(v, byte), e)
    BY DropAppend, Zenon
  <2> QED
    BY <2>1, EndOfAppend
<1> DEFINE S == {i \in Nat : i <= n => /\ DropAfterCR(SubSeq(s, 1, i), byte) = SubSeq(s, 1, i)
                                       /\ ~EndsInCR(SubSeq(s, 1, i))}
<1>3. 0 \in S
  <2>1. ~EndsInCR(<<>>)
    BY DEF EndsInCR
  <2>2. 0 \in Nat
    OBVIOUS
  <2> QED
    BY <2>1, <2>2, WholeOf, DropOfNothing, Zenon
<1>4. ASSUME NEW i \in Nat, i \in S
      PROVE  i + 1 \in S
  <2>0. i + 1 \in Nat
    OBVIOUS
  <2> SUFFICES ASSUME i + 1 <= n
               PROVE  /\ DropAfterCR(SubSeq(s, 1, i + 1), byte) = SubSeq(s, 1, i + 1)
                      /\ ~EndsInCR(SubSeq(s, 1, i + 1))
    BY <2>0, Zenon
  <2>1. i + 1 <= Len(s) /\ i <= n /\ i + 1 \in 1..n
    BY <1>1
  <2>2. PICK v \in Seq(Byte), e \in Byte : v = SubSeq(s, 1, i) /\ e = s[i + 1] /\ SubSeq(s, 1, i + 1) = Append(v, e)
    BY <2>1, OneByteMore
  <2>3. DropAfterCR(v, byte) = v /\ ~EndsInCR(v)
    BY <1>4, <2>1, <2>2, Zenon
  <2>4. e # CR
    BY <1>1, <2>1, <2>2
  <2>5. DropAfterCR(Append(v, e), byte) = Append(v, e) /\ ~EndsInCR(Append(v, e))
    BY <1>2, <2>3, <2>4
  <2> QED
    BY <2>2, <2>5, Zenon
<1>5. Nat \subseteq S
  <2> HIDE DEF S
  <2> QED
    BY <1>3, <1>4, NatSetInduction
<1>6. n \in S
  <2> HIDE DEF S
  <2> QED
    BY <1>5
<1>7. DropAfterCR(SubSeq(s, 1, n), byte) = SubSeq(s, 1, n) /\ ~EndsInCR(SubSeq(s, 1, n))
  <2>1. n <= n
    OBVIOUS
  <2> QED
    BY <1>6, <2>1, Zenon
<1>8. SubSeq(s, 1, n) = s
  BY <1>1, WholeOf, Zenon
<1> QED
  BY <1>7, <1>8, Zenon

\* A byte alone, and CR LF.
LEMMA DropOne ==
  ASSUME NEW byte, NEW e \in Byte, NEW one, one = <<e>>
  PROVE  DropAfterCR(one, byte) = one /\ (EndsInCR(one) <=> e = CR)
<1>1. PICK s \in Seq(Byte) : s = <<>>
  BY EmptySeq
<1>2. Append(s, e) = one /\ ~EndsInCR(s)
  BY <1>1 DEF EndsInCR
<1>3. DropAfterCR(s, byte) = s
  BY <1>1, DropOfNothing, Zenon
<1>4. DropAfterCR(Append(s, e), byte) = IF EndsInCR(s) /\ e = byte THEN DropAfterCR(s, byte)
                                        ELSE Append(DropAfterCR(s, byte), e)
  BY DropAppend
<1>5. EndsInCR(Append(s, e)) <=> e = CR
  BY EndOfAppend
<1> QED
  BY <1>2, <1>3, <1>4, <1>5, Zenon

LEMMA DropCRLF ==
  ASSUME NEW cr \in Seq(Byte), cr = <<CR>>, NEW lf \in Seq(Byte), lf = <<LF>>, NEW crlf, Joins(crlf, cr, lf)
  PROVE  DropAfterCR(crlf, LF) = cr /\ ~EndsInCR(crlf)
<1>1. CR \in Byte /\ LF \in Byte /\ CR # LF
  BY Codes DEF CR, LF
<1>2. crlf = Append(cr, LF)
  <2>1. Append(cr, LF) = cr \o <<LF>>
    BY <1>1, AppendIsConcat
  <2> QED
    BY <2>1 DEF Joins
<1>3. DropAfterCR(cr, LF) = cr /\ EndsInCR(cr)
  BY <1>1, DropOne, Zenon
<1>4. DropAfterCR(Append(cr, LF), LF) = IF EndsInCR(cr) /\ LF = LF THEN DropAfterCR(cr, LF)
                                        ELSE Append(DropAfterCR(cr, LF), LF)
  BY <1>1, DropAppend
<1>5. EndsInCR(Append(cr, LF)) <=> LF = CR
  BY <1>1, EndOfAppend
<1> QED
  BY <1>1, <1>2, <1>3, <1>4, <1>5, Zenon

-----------------------------------------------------------------------------
(* Line ends that no read and no escape sequence cuts.                     *)

\* No escape sequence among the units has a CR in it.
ClearUnit(u) == u.escape => \A j \in DOMAIN u.data : u.data[j] # CR

Clear(us) == \A k \in DOMAIN us : ClearUnit(us[k])

LEMMA ClearPrepend ==
  ASSUME NEW us \in Seq(UnitsOfInput), NEW u \in UnitsOfInput
  PROVE  Clear(<<u>> \o us) <=> ClearUnit(u) /\ Clear(us)
<1>1. PICK n \in Nat : n = Len(us) /\ DOMAIN us = 1..n
  BY LenProperties
<1>2. PICK one \in Seq(UnitsOfInput) : one = <<u>>
  BY OneIsASeq
<1>3. Len(one) = 1 /\ one[1] = u
  BY <1>2
<1>4. PICK w \in Seq(UnitsOfInput) : /\ w = one \o us /\ Len(w) = 1 + n
                                     /\ \A i \in 1..(1 + n) : w[i] = IF i <= 1 THEN one[i] ELSE us[i - 1]
  <2>1. /\ one \o us \in Seq(UnitsOfInput)
        /\ Len(one \o us) = Len(one) + Len(us)
        /\ \A i \in 1..(Len(one) + Len(us)) : (one \o us)[i] = IF i <= Len(one) THEN one[i] ELSE us[i - Len(one)]
    BY ConcatProperties
  <2> QED
    BY <1>1, <1>3, <2>1, Zenon
<1>5. DOMAIN w = 1..(1 + n)
  BY <1>4, LenProperties
<1>6. w[1] = u /\ 1 \in 1..(1 + n)
  BY <1>3, <1>4
<1>7. \A k \in 1..n : k + 1 \in 1..(1 + n) /\ w[k + 1] = us[k]
  BY <1>4
<1>8. \A k \in 1..(1 + n) : k = 1 \/ (k - 1 \in 1..n /\ w[k] = us[k - 1])
  BY <1>4
<1>9. Clear(w) <=> \A k \in 1..(1 + n) : ClearUnit(w[k])
  BY <1>5, Zenon DEF Clear
<1>10. Clear(us) <=> \A k \in 1..n : ClearUnit(us[k])
  BY <1>1, Zenon DEF Clear
<1>11. ASSUME Clear(w)
       PROVE  ClearUnit(u) /\ Clear(us)
  BY <1>6, <1>7, <1>9, <1>10, <1>11, Zenon
<1>12. ASSUME ClearUnit(u), Clear(us)
       PROVE  Clear(w)
  BY <1>6, <1>8, <1>9, <1>10, <1>12, Zenon
<1> QED
  BY <1>2, <1>4, <1>11, <1>12, Zenon

LEMMA ClearJoin ==
  ASSUME NEW byte \in Byte, NEW us \in Seq(UnitsOfInput), Clear(JoinPlain(byte, us))
  PROVE  Clear(us)
<1>1. CASE us # <<>> /\ ~Head(us).escape
  <2>1. PICK head \in UnitsOfInput, tail \in Seq(UnitsOfInput) : head = Head(us) /\ tail = Tail(us)
    BY <1>1, HeadTailProperties
  <2>2. PICK d \in Seq(Byte) : d = head.data
    BY <2>1 DEF UnitsOfInput
  <2>3. <<byte>> \o d \in Seq(Byte) /\ <<byte>> \o d # <<>>
    OBVIOUS
  <2>4. PICK joined \in UnitsOfInput : joined = [data |-> <<byte>> \o d, escape |-> FALSE]
    BY <2>3 DEF UnitsOfInput
  <2>5. JoinPlain(byte, us) = <<joined>> \o tail
    BY <1>1, <2>1, <2>2, <2>4, Zenon DEF JoinPlain
  <2>6. Clear(tail)
    BY <2>5, ClearPrepend, Zenon
  <2>7. us = <<head>> \o tail
    BY <1>1, <2>1
  <2>8. ClearUnit(head)
    BY <1>1, <2>1 DEF ClearUnit
  <2> QED
    BY <2>6, <2>7, <2>8, ClearPrepend, Zenon
<1>2. CASE ~(us # <<>> /\ ~Head(us).escape)
  <2>1. PICK one \in Seq(Byte) : one = <<byte>> /\ one # <<>>
    BY OneIsASeq
  <2>2. PICK alone \in UnitsOfInput : alone = [data |-> one, escape |-> FALSE]
    BY <2>1, UnitTyped
  <2>3. JoinPlain(byte, us) = <<alone>> \o us
    BY <1>2, <2>1, <2>2, Zenon DEF JoinPlain
  <2> QED
    BY <2>3, ClearPrepend, Zenon
<1> QED
  BY <1>1, <1>2

LEMMA UnitsFromExact ==
  ASSUME NEW normalizeCRLF, normalizeCRLF, NEW bytes \in Seq(Byte), NEW i \in 1..(Len(bytes) + 1), NEW f,
         \A j \in (i + 1)..(Len(bytes) + 1) :
           /\ f[j] \in Seq(UnitsOfInput)
           /\ Clear(f[j]) => Bytes(f[j]) = DropAfterCR(Rest(bytes, j), LF),
         Clear(UnitsFrom(f, bytes, normalizeCRLF, i))
  PROVE  Bytes(UnitsFrom(f, bytes, normalizeCRLF, i)) = DropAfterCR(Rest(bytes, i), LF)
<1>1. PICK n \in Nat : n = Len(bytes)
  BY LenProperties
<1>2. \A k \in 1..(n + 1) : Rest(bytes, k) \in Seq(Byte)
  BY <1>1, RestSplits
<1>3. CASE i > Len(bytes)
  <2>1. Rest(bytes, i) = <<>>
    <3>1. i = Len(bytes) + 1
      BY <1>1, <1>3
    <3> QED
      BY <3>1, RestSplits, Zenon
  <2>2. UnitsFrom(f, bytes, normalizeCRLF, i) = <<>>
    BY <1>3 DEF UnitsFrom
  <2> QED
    BY <2>1, <2>2, BytesOfNone, DropOfNothing, Zenon
<1>4. CASE ~(i > Len(bytes)) /\ normalizeCRLF /\ bytes[i] = CR /\ i < Len(bytes) /\ bytes[i + 1] = LF
  <2>1. i \in 1..Len(bytes) /\ i + 1 \in 1..Len(bytes) /\ (i + 1) + 1 = i + 2 /\ i + 2 \in (i + 1)..(Len(bytes) + 1)
    BY <1>1, <1>4
  <2>2. PICK cr \in Seq(Byte), lf \in Seq(Byte) : cr = <<CR>> /\ lf = <<LF>>
    BY Codes, OneIsASeq
  <2>3. PICK crlf \in Seq(Byte) : crlf = cr \o lf
    BY ConcatProperties
  <2>4. PICK r \in Seq(Byte), r1 \in Seq(Byte) : r = Rest(bytes, i + 2) /\ r1 = Rest(bytes, i + 1)
    BY <1>1, <1>2, <2>1
  <2>5. PICK us \in Seq(UnitsOfInput) : us = f[i + 2]
    BY <2>1
  <2>6. UnitsFrom(f, bytes, normalizeCRLF, i) = JoinPlain(CR, us)
    BY <1>4, <2>5, Zenon DEF UnitsFrom
  <2>7. Bytes(us) = DropAfterCR(r, LF)
    <3>1. Clear(us)
      BY <2>6, ClearJoin, Codes, Zenon
    <3> QED
      BY <2>1, <2>4, <2>5, <3>1
  <2>8. Joins(Bytes(JoinPlain(CR, us)), <<CR>>, Bytes(us))
    <3>1. CR \in Byte
      BY Codes
    <3> QED
      BY <3>1, JoinPlainBytes, Zenon
  <2>9. PICK all : all = Rest(bytes, i)
    OBVIOUS
  <2>10. Joins(all, cr, r1) /\ Joins(r1, lf, r)
    BY <1>4, <2>1, <2>2, <2>4, <2>9, RestSplits, Zenon
  <2>11. Joins(all, crlf, r)
    <3>1. Joins(crlf, cr, lf)
      BY <2>3 DEF Joins
    <3> QED
      BY <2>10, <3>1, JoinsLeft, SMTT(60)
  <2>12. DropAfterCR(crlf, LF) = cr /\ ~EndsInCR(crlf)
    BY <2>2, <2>3, DropCRLF, Zenon DEF Joins
  <2>13. DropAfterCR(all, LF) = DropAfterCR(crlf, LF) \o DropAfterCR(r, LF)
    <3>1. EndsInCR(crlf) => r = <<>> \/ r[1] # LF
      BY <2>12, Zenon
    <3>2. crlf \in Seq(Byte) /\ r \in Seq(Byte) /\ Joins(all, crlf, r)
      BY <2>3, <2>4, <2>11
    <3> QED
      BY <3>1, <3>2, DropJoin
  <2> QED
    BY <2>2, <2>6, <2>7, <2>8, <2>9, <2>12, <2>13, Zenon DEF Joins
<1>5. CASE /\ ~(i > Len(bytes))
           /\ ~(normalizeCRLF /\ bytes[i] = CR /\ i < Len(bytes) /\ bytes[i + 1] = LF)
           /\ bytes[i] # ESC
  <2>1. i + 1 \in (i + 1)..(Len(bytes) + 1) /\ i \in 1..Len(bytes) /\ i + 1 \in 1..(n + 1)
    BY <1>1, <1>5
  <2>2. PICK e \in Byte : e = bytes[i]
    BY <2>1, ElementOfSeq
  <2>3. PICK one \in Seq(Byte) : one = <<e>>
    BY OneIsASeq
  <2>4. PICK r \in Seq(Byte) : r = Rest(bytes, i + 1)
    BY <1>2, <2>1
  <2>5. PICK us \in Seq(UnitsOfInput) : us = f[i + 1]
    BY <2>1
  <2>6. UnitsFrom(f, bytes, normalizeCRLF, i) = JoinPlain(e, us)
    BY <1>5, <2>2, <2>5, Zenon DEF UnitsFrom
  <2>7. Bytes(us) = DropAfterCR(r, LF)
    <3>1. Clear(us)
      BY <2>6, ClearJoin, Zenon
    <3> QED
      BY <2>1, <2>4, <2>5, <3>1
  <2>8. Joins(Bytes(JoinPlain(e, us)), one, Bytes(us))
    BY <2>3, JoinPlainBytes, Zenon
  <2>9. Joins(Rest(bytes, i), one, r)
    BY <2>1, <2>2, <2>3, <2>4, RestSplits, Zenon
  <2>10. DropAfterCR(one, LF) = one /\ (EndsInCR(one) <=> e = CR)
    BY <2>3, DropOne, Zenon
  <2>11. EndsInCR(one) => r = <<>> \/ r[1] # LF
    <3> SUFFICES ASSUME e = CR, r # <<>>
                 PROVE  r[1] # LF
      BY <2>10
    <3>1. i < Len(bytes)
      <4>1. CASE i = Len(bytes)
        <5>1. r = <<>>
          BY <2>4, <4>1, RestSplits, Zenon
        <5> QED
          BY <5>1
      <4> QED
        BY <1>1, <1>5, <4>1
    <3>2. bytes[i + 1] # LF
      BY <1>5, <2>2, <3>1
    <3>3. i + 1 \in 1..Len(bytes) /\ Len(bytes) \in (i + 1)..Len(bytes)
      BY <1>1, <3>1
    <3>4. r = <<bytes[i + 1]>> \o SubSeq(bytes, (i + 1) + 1, Len(bytes))
      BY <2>4, <3>3, SubSeqRecursiveFirst DEF Rest
    <3>5. r[1] = bytes[i + 1]
      <4>1. \A k \in (i + 1)..Len(bytes) : bytes[k] \in Byte
        BY <1>1, ElementOfSeq
      <4>2. 1 \in 1..(Len(bytes) - (i + 1) + 1) /\ (i + 1) + 1 - 1 = i + 1 /\ i + 1 \in Int /\ Len(bytes) \in Int
        BY <1>1, <3>1
      <4>3. \A k \in 1..(Len(bytes) - (i + 1) + 1) : SubSeq(bytes, i + 1, Len(bytes))[k] = bytes[(i + 1) + k - 1]
        BY <4>1, <4>2, SubSeqProperties
      <4> QED
        BY <2>4, <4>2, <4>3 DEF Rest
    <3> QED
      BY <3>2, <3>5
  <2>12. DropAfterCR(Rest(bytes, i), LF) = DropAfterCR(one, LF) \o DropAfterCR(r, LF)
    BY <2>9, <2>11, DropJoin, Zenon
  <2> QED
    BY <2>6, <2>7, <2>8, <2>10, <2>12, Zenon DEF Joins
<1>6. CASE /\ ~(i > Len(bytes))
           /\ ~(normalizeCRLF /\ bytes[i] = CR /\ i < Len(bytes) /\ bytes[i + 1] = LF)
           /\ ~(bytes[i] # ESC)
  <2>1. i \in 1..Len(bytes)
    BY <1>1, <1>6
  <2>2. PICK end \in i..Len(bytes) : end = EscapeSequenceEnd(bytes, i)
    BY <2>1, EscapeEndsInTheData
  <2>3. end + 1 \in (i + 1)..(Len(bytes) + 1) /\ end + 1 \in 1..(n + 1) /\ end \in 1..Len(bytes) /\ i <= end
    BY <1>1
  <2>4. PICK part \in Seq(Byte) : part = SubSeq(bytes, i, end) /\ part # <<>>
    BY <2>3, PartTyped, Zenon
  <2>5. PICK unit \in UnitsOfInput : unit = [data |-> part, escape |-> TRUE] /\ unit.data = part /\ unit.escape
    BY <2>4, UnitTyped
  <2>6. PICK r \in Seq(Byte) : r = Rest(bytes, end + 1)
    BY <1>2, <2>3
  <2>7. PICK us \in Seq(UnitsOfInput) : us = f[end + 1]
    BY <2>3
  <2>8. UnitsFrom(f, bytes, normalizeCRLF, i) = <<unit>> \o us
    BY <1>6, <2>2, <2>4, <2>5, <2>7, Zenon DEF UnitsFrom
  <2>9. Clear(us) /\ ClearUnit(unit)
    BY <2>8, ClearPrepend, Zenon
  <2>10. Bytes(us) = DropAfterCR(r, LF)
    BY <2>3, <2>6, <2>7, <2>9
  <2>11. Bytes(<<unit>> \o us) = part \o Bytes(us)
    BY <2>5, BytesPrepend, Zenon
  <2>12. Joins(Rest(bytes, i), part, r)
    BY <2>1, <2>3, <2>4, <2>6, RestSplits, Zenon
  <2>13. DropAfterCR(part, LF) = part /\ ~EndsInCR(part)
    <3>1. \A j \in DOMAIN part : part[j] # CR
      BY <2>5, <2>9, Zenon DEF ClearUnit
    <3> QED
      BY <3>1, DropNothing, Zenon
  <2>14. DropAfterCR(Rest(bytes, i), LF) = DropAfterCR(part, LF) \o DropAfterCR(r, LF)
    BY <2>12, <2>13, DropJoin, Zenon
  <2> QED
    BY <2>8, <2>10, <2>11, <2>13, <2>14, Zenon
<1> QED
  BY <1>3, <1>4, <1>5, <1>6, Zenon

\* With normalize_crlf, splitTerminalInput does what bytes.ReplaceAll would.
LEMMA SplitIsExact ==
  ASSUME NEW normalizeCRLF, normalizeCRLF, NEW bytes \in Seq(Byte), Clear(Split(bytes, normalizeCRLF))
  PROVE  Bytes(Split(bytes, normalizeCRLF)) = DropAfterCR(bytes, LF)
<1>1. PICK n \in Nat : n = Len(bytes)
  BY LenProperties
<1>2. PICK f : /\ \A i \in 1..(n + 1) : /\ f[i] = UnitsFrom(f, bytes, normalizeCRLF, i)
                                        /\ f[i] \in Seq(UnitsOfInput)
               /\ Split(bytes, normalizeCRLF) = f[1]
  BY <1>1, SplitRuns, Zenon
<1> DEFINE Exact(i) == Clear(f[i]) => Bytes(f[i]) = DropAfterCR(Rest(bytes, i), LF)
           S == {k \in Nat : \A i \in 1..(n + 1) : i + k >= n + 1 => Exact(i)}
<1>3. ASSUME NEW i \in 1..(n + 1), \A j \in (i + 1)..(n + 1) : Exact(j)
      PROVE  Exact(i)
  <2> SUFFICES ASSUME Clear(f[i])
               PROVE  Bytes(f[i]) = DropAfterCR(Rest(bytes, i), LF)
    OBVIOUS
  <2>1. \A j \in (i + 1)..(Len(bytes) + 1) :
          /\ f[j] \in Seq(UnitsOfInput)
          /\ Clear(f[j]) => Bytes(f[j]) = DropAfterCR(Rest(bytes, j), LF)
    <3> SUFFICES ASSUME NEW j \in (i + 1)..(Len(bytes) + 1)
                 PROVE  /\ f[j] \in Seq(UnitsOfInput)
                        /\ Clear(f[j]) => Bytes(f[j]) = DropAfterCR(Rest(bytes, j), LF)
      OBVIOUS
    <3>1. j \in 1..(n + 1) /\ j \in (i + 1)..(n + 1)
      BY <1>1
    <3>2. f[j] \in Seq(UnitsOfInput)
      BY <1>2, <3>1
    <3>3. Exact(j)
      BY <1>3, <3>1, Zenon
    <3> QED
      BY <3>2, <3>3
  <2>2. i \in 1..(Len(bytes) + 1)
    BY <1>1
  <2>3. f[i] = UnitsFrom(f, bytes, normalizeCRLF, i)
    BY <1>2
  <2>4. Bytes(UnitsFrom(f, bytes, normalizeCRLF, i)) = DropAfterCR(Rest(bytes, i), LF)
    BY <2>1, <2>2, <2>3, UnitsFromExact, Zenon
  <2> QED
    BY <2>3, <2>4, Zenon
<1>4. 0 \in S
  <2>0. 0 \in Nat
    OBVIOUS
  <2> SUFFICES ASSUME NEW i \in 1..(n + 1), i + 0 >= n + 1
               PROVE  Exact(i)
    BY <2>0, Zenon
  <2>1. \A j \in (i + 1)..(n + 1) : FALSE
    OBVIOUS
  <2> QED
    BY <1>3, <2>1, Zenon
<1>5. ASSUME NEW k \in Nat, k \in S
      PROVE  k + 1 \in S
  <2>0. k + 1 \in Nat
    OBVIOUS
  <2> SUFFICES ASSUME NEW i \in 1..(n + 1), i + (k + 1) >= n + 1
               PROVE  Exact(i)
    BY <2>0, Zenon
  <2>1. ASSUME NEW j \in (i + 1)..(n + 1)
        PROVE  Exact(j)
    <3>1. j \in 1..(n + 1) /\ j + k >= n + 1
      OBVIOUS
    <3> QED
      BY <1>5, <3>1, Zenon
  <2> QED
    BY <1>3, <2>1, Zenon
<1>6. Nat \subseteq S
  <2> HIDE DEF S
  <2> QED
    BY <1>4, <1>5, NatSetInduction
<1>7. n \in S
  <2> HIDE DEF S
  <2> QED
    BY <1>6
<1>8. 1 \in 1..(n + 1) /\ 1 + n >= n + 1
  OBVIOUS
<1>9. Exact(1)
  BY <1>7, <1>8, Zenon
<1> QED
  BY <1>2, <1>9, RestSplits, Zenon

-----------------------------------------------------------------------------
(* What of a client's data is written when no line end is cut.             *)

Normalized(c, data) == IF LF \in Padding(c) THEN DropAfterCR(Unpadded(c, data), LF) ELSE Unpadded(c, data)

LEMMA NormalizedTyped ==
  ASSUME NEW c, NEW data \in Seq(Byte)
  PROVE  Unpadded(c, data) \in Seq(Byte) /\ Normalized(c, data) \in Seq(Byte)
<1>1. Unpadded(c, data) \in Seq(Byte)
  BY DropAfterCRTyped, Zenon DEF Unpadded
<1>2. DropAfterCR(Unpadded(c, data), LF) \in Seq(Byte)
  BY <1>1, DropAfterCRTyped, Zenon
<1> QED
  BY <1>1, <1>2 DEF Normalized

\* Without padding, to be alike is to be the same.
LEMMA AlikeIsSame ==
  ASSUME NEW x \in Seq(Byte), NEW y \in Seq(Byte), Alike({}, x, y)
  PROVE  x = y
<1>1. PICK s \in Seq(Byte) : s = <<>>
  BY EmptySeq
<1>2. UpToLineEnds({}, s \o x) = UpToLineEnds({}, s \o y)
  BY DEF Alike
<1>3. s \o x = x /\ s \o y = y
  BY <1>1, ConcatEmptySeq
<1>4. UpToLineEnds({}, x) = x /\ UpToLineEnds({}, y) = y
  BY NothingPads
<1> QED
  BY <1>2, <1>3, <1>4, Zenon

LEMMA UnitsAreExact ==
  ASSUME NEW c \in Clients, NEW data \in Seq(Byte), Is(c, "websocket") => data # <<>>,
         NEW cuts \in Seq(UnitsOfInput), cuts = Units(c, Unpadded(c, data)), Clear(cuts)
  PROVE  Bytes(cuts) = Normalized(c, data)
<1>1. PICK rest \in Seq(Byte) : rest = Unpadded(c, data)
  BY NormalizedTyped
<1>2. LF \in Padding(c) <=> scenario.normalizeCRLF /\ ~Is(c, "websocket")
  BY DEF Padding, NUL, LF
<1>3. CASE Is(c, "websocket")
  <2>1. rest = data
    BY <1>1, <1>3 DEF Unpadded, Is
  <2>2. Bytes(Units(c, rest)) = rest
    BY <1>3, <2>1, MessageIsOneUnit, Zenon
  <2> QED
    BY <1>1, <1>2, <1>3, <2>2, Zenon DEF Normalized
<1>4. CASE ~Is(c, "websocket") /\ ~scenario.normalizeCRLF
  <2>1. cuts = Split(rest, scenario.normalizeCRLF)
    BY <1>1, <1>4, Zenon DEF Units
  <2>2. CR \notin {} /\ (scenario.normalizeCRLF => LF \in {})
    BY <1>4
  <2>3. Alike({}, Bytes(Split(rest, scenario.normalizeCRLF)), rest)
    BY <2>2, SplitIsAlike, Zenon
  <2>4. Bytes(cuts) \in Seq(Byte)
    BY BytesTyped
  <2>5. Bytes(cuts) = rest
    BY <2>1, <2>3, <2>4, AlikeIsSame, Zenon
  <2> QED
    BY <1>1, <1>2, <1>4, <2>5, Zenon DEF Normalized
<1>5. CASE ~Is(c, "websocket") /\ scenario.normalizeCRLF
  <2>1. cuts = Split(rest, scenario.normalizeCRLF)
    BY <1>1, <1>5, Zenon DEF Units
  <2>2. Bytes(Split(rest, scenario.normalizeCRLF)) = DropAfterCR(rest, LF)
    BY <1>5, <2>1, SplitIsExact, Zenon
  <2> QED
    BY <1>1, <1>2, <1>5, <2>1, <2>2, Zenon DEF Normalized
<1> QED
  BY <1>3, <1>4, <1>5

LEMMA NormalizedJoin ==
  ASSUME NEW c, NEW m \in Seq(Byte), NEW x \in Seq(Byte), ~EndsInCR(m), ~EndsInCR(Unpadded(c, m))
  PROVE  /\ Unpadded(c, m \o x) = Unpadded(c, m) \o Unpadded(c, x)
         /\ Normalized(c, m \o x) = Normalized(c, m) \o Normalized(c, x)
<1>1. PICK u \in Seq(Byte), v \in Seq(Byte), w \in Seq(Byte) :
        u = Unpadded(c, m) /\ v = Unpadded(c, x) /\ w = Unpadded(c, m \o x)
  BY NormalizedTyped, ConcatProperties
<1>2. Joins(w, u, v)
  <2>1. DropAfterCR(m \o x, NUL) = DropAfterCR(m, NUL) \o DropAfterCR(x, NUL)
    <3>1. PICK all : all = m \o x
      OBVIOUS
    <3>2. Joins(all, m, x)
      BY <3>1 DEF Joins
    <3>3. DropAfterCR(all, NUL) = DropAfterCR(m, NUL) \o DropAfterCR(x, NUL)
      BY <3>2, DropJoin
    <3> QED
      BY <3>1, <3>3, Zenon
  <2> QED
    BY <1>1, <2>1 DEF Unpadded, Joins
<1>3. DropAfterCR(w, LF) = DropAfterCR(u, LF) \o DropAfterCR(v, LF)
  <2>1. ~EndsInCR(u)
    BY <1>1
  <2> QED
    BY <1>2, <2>1, DropJoin
<1> QED
  BY <1>1, <1>2, <1>3 DEF Normalized, Joins

LEMMA NoEndJoined ==
  ASSUME NEW a \in Seq(Byte), NEW b \in Seq(Byte), ~EndsInCR(a), ~EndsInCR(b)
  PROVE  ~EndsInCR(a \o b)
<1>1. CASE b = <<>>
  <2>1. a \o <<>> = a
    BY ConcatEmptySeq
  <2> QED
    BY <1>1, <2>1, Zenon
<1>2. CASE b # <<>>
  BY <1>2, EndOfJoin, Zenon
<1> QED
  BY <1>1, <1>2

-----------------------------------------------------------------------------
(* Where the data of each client is, to the byte.                          *)

Exact(c) ==
  /\ Arrived({}, pc[c], units[c], written[c], OnWire(c), Normalized(c, Meant(c)))
  /\ ~EndsInCR(Meant(c))
  /\ ~EndsInCR(Unpadded(c, Meant(c)))

ExactInv ==
  /\ DOMAIN cut = Clients
  /\ \A c \in Clients : ~cut[c] => Exact(c)

LEMMA InitExact == Shape /\ Init => ExactInv
<1> SUFFICES ASSUME Shape, Init
             PROVE  ExactInv
  OBVIOUS
<1>1. DOMAIN cut = Clients
  BY DEF Init
<1>2. ASSUME NEW c \in Clients
      PROVE  Exact(c)
  <2>1. got[c] = 0 /\ pc[c] = "reading" /\ units[c] = <<>> /\ wire = <<>>
    BY DEF Init
  <2>2. Consumed(c) = <<>>
    BY <2>1, SubSeqEmpty DEF Consumed
  <2>3. Meant(c) = <<>>
    BY <2>2, NothingMeans, Zenon DEF Meant
  <2>4. OnWire(c) = <<>>
    BY <2>1, OnWireTyped, OfClientEmpty, Zenon
  <2>5. PendingOf("reading", <<>>, written[c]) = <<>>
    BY BytesOfNone DEF PendingOf
  <2>6. Unpadded(c, <<>>) = <<>> /\ Normalized(c, <<>>) = <<>>
    BY DropOfNothing DEF Unpadded, Normalized
  <2>7. ~EndsInCR(<<>>)
    BY DEF EndsInCR
  <2>8. <<>> \o <<>> = <<>>
    OBVIOUS
  <2>9. Arrived({}, pc[c], units[c], written[c], OnWire(c), Normalized(c, Meant(c)))
    BY <2>1, <2>3, <2>4, <2>5, <2>6, <2>8 DEF Arrived
  <2> QED
    BY <2>3, <2>6, <2>7, <2>9, Zenon DEF Exact
<1> QED
  BY <1>1, <1>2 DEF ExactInv

\* A read that ends in no CR, of escape sequences without one.
LEMMA ReadIsExact ==
  ASSUME Shape, TalkInv, NEW c \in Clients, ReadSome(c), DOMAIN cut = Clients, ~cut[c] => Exact(c), ~cut'[c]
  PROVE  Exact(c)'
<1>1. PICK data \in Seq(Byte), cuts \in Seq(UnitsOfInput) :
         /\ Is(c, "websocket") => data # <<>>
         /\ cuts = Units(c, Unpadded(c, data))
         /\ Meant(c)' = Meant(c) \o data
         /\ pc[c] = "reading" /\ pc'[c] \notin {"record", "left"}
         /\ pc'[c] = "reading" => cuts = <<>>
         /\ units'[c] = cuts /\ written'[c] = written[c] /\ OnWire(c)' = OnWire(c)
         /\ scenario' = scenario
         /\ cut' = [cut EXCEPT ![c] =
              \/ @
              \/ data # <<>> /\ Last(data) = CR
              \/ Unpadded(c, data) # <<>> /\ Last(Unpadded(c, data)) = CR
              \/ \E i \in DOMAIN cuts :
                   /\ cuts[i].escape
                   /\ \E j \in DOMAIN cuts[i].data : cuts[i].data[j] = CR]
  BY ReadAdds
<1>2. /\ ~cut[c]
      /\ ~(data # <<>> /\ Last(data) = CR)
      /\ ~(Unpadded(c, data) # <<>> /\ Last(Unpadded(c, data)) = CR)
      /\ ~\E i \in DOMAIN cuts :
            /\ cuts[i].escape
            /\ \E j \in DOMAIN cuts[i].data : cuts[i].data[j] = CR
  BY <1>1, Zenon
<1>3. ~EndsInCR(data) /\ ~EndsInCR(Unpadded(c, data)) /\ Clear(cuts)
  BY <1>2, Zenon DEF EndsInCR, Clear, ClearUnit
<1>4. PICK before \in Seq(Byte) : before = Meant(c)
  BY MeantTyped
<1>5. /\ Arrived({}, "reading", units[c], written[c], OnWire(c), Normalized(c, before))
      /\ ~EndsInCR(before) /\ ~EndsInCR(Unpadded(c, before))
  BY <1>1, <1>2, <1>4 DEF Exact
<1>6. Bytes(cuts) = Normalized(c, data)
  BY <1>1, <1>3, UnitsAreExact, Zenon
<1>7. /\ Unpadded(c, before \o data) = Unpadded(c, before) \o Unpadded(c, data)
      /\ Normalized(c, before \o data) = Normalized(c, before) \o Normalized(c, data)
  BY <1>5, NormalizedJoin, Zenon
<1>8. Arrived({}, pc'[c], cuts, written[c], OnWire(c), Normalized(c, before \o data))
  <2>1. PICK bytes \in Seq(Byte), sent \in Seq(Byte), meant \in Seq(Byte) :
          bytes = Bytes(cuts) /\ sent = OnWire(c) /\ meant = Normalized(c, before)
    BY OnWireTyped, NormalizedTyped, BytesTyped
  <2>2. Alike({}, Bytes(cuts), bytes)
    BY <2>1, Zenon DEF Alike
  <2>3. Arrived({}, pc'[c], cuts, written[c], sent, meant \o bytes)
    BY <1>1, <1>5, <2>1, <2>2, ArrivedReads
  <2> QED
    BY <1>6, <1>7, <2>1, <2>3, Zenon
<1>9. ~EndsInCR(before \o data) /\ ~EndsInCR(Unpadded(c, before \o data))
  <2>1. Unpadded(c, before) \in Seq(Byte) /\ Unpadded(c, data) \in Seq(Byte)
    BY NormalizedTyped
  <2> QED
    BY <1>3, <1>5, <1>7, <2>1, NoEndJoined
<1>10. Meant(c)' = before \o data
  BY <1>1, <1>4, Zenon
<1>11. /\ Unpadded(c, Meant(c))' = Unpadded(c, before \o data)
       /\ Normalized(c, Meant(c))' = Normalized(c, before \o data)
  BY <1>1, <1>10 DEF Normalized, Unpadded, Padding, Is
<1> QED
  BY <1>1, <1>8, <1>9, <1>10, <1>11 DEF Exact

LEMMA StepExact == InputInv /\ TalkInv /\ ExactInv /\ [Next]_vars => ExactInv'
<1> SUFFICES ASSUME InputInv, TalkInv, ExactInv, [Next]_vars
             PROVE  ExactInv'
  OBVIOUS
<1>1. Shape /\ DOMAIN cut = Clients /\ \A c \in Clients : ~cut[c] => Exact(c)
  BY DEF InputInv, ExactInv
<1>2. DOMAIN cut' = Clients
  <2>1. CASE \E c \in Clients : ReadSome(c)
    BY <1>1, <2>1 DEF ReadSome, Read
  <2>2. CASE UNCHANGED cut
    BY <1>1, <2>2
  <2> QED
    BY <2>1, <2>2 DEF Next, vars, Reply, Leave, LockWrite, PortWrite, Record, Show, Tick
<1>3. ASSUME NEW c \in Clients, ~cut'[c]
      PROVE  Exact(c)'
  <2>1. CASE ReadSome(c)
    BY <1>1, <1>3, <2>1, ReadIsExact
  <2>2. CASE ~ReadSome(c)
    <3>1. scenario' = scenario /\ got'[c] = got[c] /\ cut'[c] = cut[c]
      BY <1>1, <2>2, StepKeeps
    <3>2. Exact(c)
      BY <1>1, <1>3, <3>1
    <3>3. Arrived({}, pc[c], units[c], written[c], OnWire(c), Normalized(c, Meant(c)))
      BY <3>2 DEF Exact
    <3>4. Arrived({}, pc'[c], units'[c], written'[c], OnWire(c)', Normalized(c, Meant(c)))
      BY <2>2, <3>3, StepKeeps
    <3>5. Meant(c)' = Meant(c)
      BY <3>1, SameMeant
    <3>6. /\ Unpadded(c, Meant(c))' = Unpadded(c, Meant(c))
          /\ Normalized(c, Meant(c))' = Normalized(c, Meant(c))
      BY <3>1, <3>5 DEF Normalized, Unpadded, Padding, Is
    <3> QED
      BY <3>2, <3>4, <3>5, <3>6 DEF Exact
  <2> QED
    BY <2>1, <2>2
<1> QED
  BY <1>2, <1>3 DEF ExactInv

LEMMA ExactInvariance == Spec => []ExactInv
<1>1. Init => ExactInv
  BY InitShape, InitExact
<1> QED
  BY <1>1, StepExact, Invariance, TalkInvariance, PTL DEF Spec, Safety

-----------------------------------------------------------------------------
(* The theorems.                                                           *)

\* Type correctness, for whatever clients send and however it is split: the
\* decoder, the cutting into units and the encoder return what they should,
\* no unit is empty, and neither is a record.
THEOREM TypeCorrect == Spec => []TypeOK
<1>1. InputInv => TypeOK
  <2> SUFFICES ASSUME InputInv
               PROVE  TypeOK
    OBVIOUS
  <2> USE DEF InputInv
  <2>1. /\ scenario \in Scenarios
        /\ writer \in Clients \cup {None}
        /\ wire \in Seq(Clients \X Byte)
        /\ history \in Seq(Seq(Byte) \ {<<>>})
    BY DEF Shape
  <2>2. ASSUME NEW c \in Clients
        PROVE  /\ got[c] \in 0..Len(Input(c))
               /\ decoder[c].state \in {"data", "iac", "option", "sub", "subIac"}
               /\ decoder[c].command \in Negotiations
               /\ reply[c] \in Seq(Byte)
               /\ units[c] \in Seq([data : Seq(Byte) \ {<<>>}, escape : BOOLEAN])
               /\ age[c] \in 0..EscapeDelay
               /\ pc[c] \in {"reading", "replying", "writing", "port", "record", "left"}
               /\ written[c] \in Nat
               /\ toClient[c] \in Seq(Byte)
               /\ shown[c] \in 0..Len(scenario.output)
    <3>1. got[c] \in 0..Len(Input(c))
      <4>1. Input(c) \in Seq(Byte)
        BY ScenarioTyped
      <4>2. Len(Input(c)) \in Nat
        BY <4>1, LenProperties
      <4> QED
        BY <4>2 DEF Shape
    <3>2. decoder[c] \in Decoders
      BY DEF Shape
    <3> QED
      BY <3>1, <3>2 DEF Shape, Decoders, DecoderStates, Places, UnitsOfInput
  <2> QED
    BY <2>1, <2>2, Zenon DEF TypeOK
<1> QED
  BY <1>1, Invariance, PTL

\* SerialGateway.Write: writeMu spans port.Write and addRecord, so that the
\* history has what the port took, in the order it took it, when nobody
\* holds it.
THEOREM HistoryIsOfTheWire == Spec => []HistoryIsTheWire
<1>1. InputInv => HistoryIsTheWire
  <2> SUFFICES ASSUME InputInv, writer = None
               PROVE  FlattenSeq(history) = OnTheWire
    BY Zenon DEF HistoryIsTheWire, OnTheWire
  <2>1. \A c \in Clients : pc[c] # "record"
    BY ClientInputAssumption DEF InputInv, Holder
  <2> QED
    BY <2>1, Zenon DEF InputInv, OnePieceBehind
<1> QED
  BY <1>1, Invariance, PTL

\* terminalInputWriter.Write: an escape sequence reaches the port no sooner
\* than EscapeDelay after the one before it of the same client.
THEOREM EscapeSequencesStayApart == Spec => EscapesStayApart
<1>1. InputInv /\ [Next]_vars =>
        [\A c \in Clients :
           PortWrite(c) /\ Head(units[c]).escape /\ wire' # wire => calm[c] >= EscapeDelay]_vars
  <2> SUFFICES ASSUME InputInv, NEW c \in Clients, PortWrite(c), Head(units[c]).escape
               PROVE  calm[c] >= EscapeDelay
    OBVIOUS
  <2>1. pc[c] = "port"
    BY DEF PortWrite
  <2>2. age[c] <= calm[c] /\ age[c] >= EscapeDelay
    BY <2>1 DEF InputInv, AgeIsCalm
  <2>3. age[c] \in Nat /\ calm[c] \in Nat /\ EscapeDelay \in Nat
    <3>1. EscapeDelay \in Nat
      BY ScenarioTyped DEF InputInv
    <3> QED
      BY <3>1 DEF InputInv, Shape
  <2> QED
    BY <2>2, <2>3
<1> QED
  BY <1>1, Invariance, PTL DEF Spec, Safety, EscapesStayApart

\* handleTelnet, writeLoop and encodeTelnetData: whatever else the gateway
\* says on the connection and however the client negotiates, the client finds
\* the output of the device in it byte for byte, an IAC in it included.
THEOREM OutputIsHeardAsItIs == Spec => []OutputIsTransparent
<1>1. TalkInv => OutputIsTransparent
  BY DEF TalkInv, Talk, TalkIs, OutputIsTransparent
<1> QED
  BY <1>1, TalkInvariance, PTL

\* telnetDecoder.decode keeps its state from one read to the next: wherever
\* reads cut the input of a client, each of its negotiations is answered as
\* the input as a whole calls for, once, in order, and nothing else is said.
THEOREM NegotiationsGetTheirAnswers == Spec => []NegotiationsAreAnswered
<1>1. TalkInv => NegotiationsAreAnswered
  <2> SUFFICES ASSUME TalkInv, NEW c \in Clients, Is(c, "telnet")
               PROVE  IF pc[c] = "left"
                      THEN IsPrefix(CommandsIn(toClient[c]) \o reply[c], Greeting \o AnswersTo(Consumed(c)))
                      ELSE CommandsIn(toClient[c]) \o reply[c] = Greeting \o AnswersTo(Consumed(c))
    BY DEF NegotiationsAreAnswered
  <2> QED
    BY DEF TalkInv, Talk, TalkIs
<1> QED
  BY <1>1, TalkInvariance, PTL

\* terminalInputWriter.Write and SerialGateway.Write: whatever is read at once,
\* whoever else writes and wherever writes fail, a client's data goes to the
\* port once and in order, but for what pads its line ends.
THEOREM AllInputArrives == Spec => []InputArrives
<1>1. ArrivingInv => InputArrives
  <2> SUFFICES ASSUME ArrivingInv, NEW c \in Clients
               PROVE  LET meant == UpToLineEnds(Padding(c), Meant(c)) IN
                      IF pc[c] = "left" THEN IsPrefix(UpToLineEnds(Padding(c), OnWire(c)), meant)
                      ELSE UpToLineEnds(Padding(c), OnWire(c) \o Pending(c)) = meant
    BY Zenon DEF InputArrives
  <2>1. Arrived(Padding(c), pc[c], units[c], written[c], OnWire(c), Meant(c))
    BY DEF ArrivingInv, Arriving
  <2>2. Pending(c) = PendingOf(pc[c], units[c], written[c])
    BY Zenon DEF Pending, PendingOf
  <2> QED
    BY <2>1, <2>2, Zenon DEF Arrived
<1> QED
  BY <1>1, ArrivingInvariance, PTL

\* DropAfterCR in handleTelnet and bytes.ReplaceAll in splitTerminalInput: as
\* long as no read ends within a line end and no escape sequence has a CR in
\* it, CR NUL and CR LF of all the data come out as one CR.
THEOREM LineEndsComeOutNormalized == Spec => []LineEndsAreNormalized
<1>1. InputInv /\ ExactInv => LineEndsAreNormalized
  <2> SUFFICES ASSUME InputInv, ExactInv, NEW c \in Clients, ~cut[c], pc[c] # "left"
               PROVE  OnWire(c) \o Pending(c) = Normalized(c, Meant(c))
    BY Zenon DEF LineEndsAreNormalized, Normalized, Unpadded
  <2>1. Shape /\ Arrived({}, pc[c], units[c], written[c], OnWire(c), Normalized(c, Meant(c)))
    BY DEF InputInv, ExactInv, Exact
  <2>2. PICK sent \in Seq(Byte), pending \in Seq(Byte), meant \in Seq(Byte) :
          /\ sent = OnWire(c) /\ pending = PendingOf(pc[c], units[c], written[c])
          /\ meant = Normalized(c, Meant(c))
    <3>1. units[c] \in Seq(UnitsOfInput) /\ written[c] \in Nat
      BY <2>1 DEF Shape
    <3> QED
      BY <2>1, <3>1, OnWireTyped, PendingTyped, MeantTyped, NormalizedTyped
  <2>3. UpToLineEnds({}, sent \o pending) = UpToLineEnds({}, meant)
    BY <2>1, <2>2, Zenon DEF Arrived
  <2>4. sent \o pending \in Seq(Byte)
    BY ConcatProperties
  <2>5. sent \o pending = meant
    BY <2>3, <2>4, NothingPads, Zenon
  <2>6. Pending(c) = PendingOf(pc[c], units[c], written[c])
    BY Zenon DEF Pending, PendingOf
  <2> QED
    BY <2>2, <2>5, <2>6, Zenon
<1> QED
  BY <1>1, Invariance, ExactInvariance, PTL

\* writeMu belongs to one client that is in Write, and to nobody else.
HeldOnlyInWrite ==
  /\ writer # None => writer \in Clients /\ pc[writer] \in {"port", "record"}
  /\ \A c, d \in Clients :
       pc[c] \in {"port", "record"} /\ pc[d] \in {"port", "record"} => c = d

\* SerialGateway.Write gives writeMu back on every way out, a write that fails or is
\* cut short included: no client waits for one that has left or reads.  This is what
\* InputIsWritten rests on.
THEOREM WriteMuIsGivenBack == Spec => []HeldOnlyInWrite
<1>1. InputInv => HeldOnlyInWrite
  <2> SUFFICES ASSUME InputInv
               PROVE  HeldOnlyInWrite
    OBVIOUS
  <2>1. writer \in Clients \cup {None} /\ Holder
    BY DEF InputInv, Shape
  <2>2. writer # None => writer \in Clients /\ pc[writer] \in {"port", "record"}
    BY <2>1, Zenon DEF Holder
  <2>3. ASSUME NEW c \in Clients, NEW d \in Clients,
               pc[c] \in {"port", "record"}, pc[d] \in {"port", "record"}
        PROVE  c = d
    BY <2>1, <2>3, Zenon DEF Holder
  <2> QED
    BY <2>2, <2>3, Zenon DEF HeldOnlyInWrite
<1> QED
  BY <1>1, Invariance, PTL

=============================================================================
