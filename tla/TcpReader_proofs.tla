-------------------------- MODULE TcpReader_proofs --------------------------
(***************************************************************************)
(* Proofs about TcpReader, for every byte alphabet, every set of command   *)
(* bodies without a delimiter, every size of buf and every number of       *)
(* commands.                                                               *)
(*                                                                         *)
(* The inductive invariant says where the reader is in the stream: wire is *)
(* the commands written, each with its delimiter (WireInv); handled are    *)
(* the first of them (HandledInv); and msg is the part of wire from the    *)
(* end of the last command handled to the last byte received (MsgInv).     *)
(***************************************************************************)
EXTENDS TcpReader, SequenceTheorems, TLAPS

\* Where the k-th command starts when e tells where each one ends.
Start(e, k) == IF k = 1 THEN 0 ELSE e[k - 1]

\* Bytes b+1, b+2, ... of w are the command c and its delimiter.
FrameAt(w, b, c) ==
    /\ b + Len(c) + 2 <= Len(w)
    /\ \A i \in 1 .. Len(c) : w[b + i] = c[i]
    /\ w[b + Len(c) + 1] = CR
    /\ w[b + Len(c) + 2] = LF

WireInv ==
    /\ Len(ends) = Len(written)
    /\ Len(wire) = Start(ends, Len(written) + 1)
    /\ \A k \in 1 .. Len(written) :
          /\ ends[k] = Start(ends, k) + Len(written[k]) + 2
          /\ FrameAt(wire, Start(ends, k), written[k])

HandledInv == InOrderExactlyOnce

Base == Start(ends, Len(handled) + 1)

MsgInv ==
    /\ received = Base + Len(msg)
    /\ \A i \in 1 .. Len(msg) : msg[i] = wire[Base + i]

Inv ==
    /\ TypeOK
    /\ WireInv
    /\ HandledInv
    /\ MsgInv
    /\ TerminationExplained

-----------------------------------------------------------------------------
\* The elements of s \o t, those of t counted from the end of s.
LEMMA ConcatElements ==
    ASSUME NEW s \in Seq(Byte), NEW t \in Seq(Byte)
    PROVE  /\ s \o t \in Seq(Byte)
           /\ Len(s \o t) = Len(s) + Len(t)
           /\ \A i \in 1 .. Len(s) : (s \o t)[i] = s[i]
           /\ \A i \in 1 .. Len(t) : (s \o t)[Len(s) + i] = t[i]
<1>1. /\ s \o t \in Seq(Byte)
      /\ Len(s \o t) = Len(s) + Len(t)
      /\ \A i \in 1 .. Len(s) + Len(t) :
            (s \o t)[i] = IF i <= Len(s) THEN s[i] ELSE t[i - Len(s)]
      /\ Len(s) \in Nat
      /\ Len(t) \in Nat
  BY ConcatProperties
<1>2. ASSUME NEW i \in 1 .. Len(t)
      PROVE  (s \o t)[Len(s) + i] = t[i]
  <2>1. /\ Len(s) + i \in 1 .. Len(s) + Len(t)
        /\ ~(Len(s) + i <= Len(s))
        /\ (Len(s) + i) - Len(s) = i
    BY <1>1
  <2>2. QED
    BY <1>1, <2>1
<1>3. QED
  BY <1>1, <1>2

\* The elements of the part of s from k to n.
LEMMA SubSeqElements ==
    ASSUME NEW S, NEW s \in Seq(S), NEW k \in Nat \ {0}, NEW n \in Nat,
           k <= n + 1, n <= Len(s)
    PROVE  /\ SubSeq(s, k, n) \in Seq(S)
           /\ Len(SubSeq(s, k, n)) = n + 1 - k
           /\ \A i \in 1 .. n + 1 - k : SubSeq(s, k, n)[i] = s[(k - 1) + i]
<1>1. \A i \in k .. n : s[i] \in S
  OBVIOUS
<1>2. /\ SubSeq(s, k, n) \in Seq(S)
      /\ Len(SubSeq(s, k, n)) = IF k <= n THEN n - k + 1 ELSE 0
      /\ \A i \in 1 .. n - k + 1 : SubSeq(s, k, n)[i] = s[k + i - 1]
  BY <1>1, SubSeqProperties
<1>3. /\ n - k + 1 = n + 1 - k
      /\ (IF k <= n THEN n - k + 1 ELSE 0) = n + 1 - k
      /\ \A i \in 1 .. n + 1 - k : k + i - 1 = (k - 1) + i
  OBVIOUS
<1>4. QED
  BY <1>2, <1>3

\* Find returns the position of a delimiter that no other precedes.
LEMMA FindFirst ==
    ASSUME NEW s, NEW i \in 1 .. Len(s), Len(s) \in Nat,
           DelimiterAt(s, i),
           \A j \in 1 .. i - 1 : ~DelimiterAt(s, j)
    PROVE  Find(s) = i
<1> DEFINE First(x) == /\ DelimiterAt(s, x)
                       /\ \A j \in 1 .. x - 1 : ~DelimiterAt(s, j)
<1>1. First(i)
  OBVIOUS
<1>2. /\ Find(s) \in 1 .. Len(s)
      /\ First(Find(s))
  BY <1>1 DEF Find
<1>3. ~(Find(s) < i)
  BY <1>2
<1>4. ~(i < Find(s))
  BY <1>1, <1>2
<1>5. QED
  BY <1>2, <1>3, <1>4

\* A part s of the stream that begins where a command begins has a delimiter
\* exactly when it holds all of that command's frame, and then the text before
\* the first delimiter is the command.
LEMMA FirstCommand ==
    ASSUME NEW c \in Commands, NEW w \in Seq(Byte), NEW b \in Nat,
           NEW s \in Seq(Byte),
           FrameAt(w, b, c),
           b + Len(s) <= Len(w),
           \A i \in 1 .. Len(s) : s[i] = w[b + i]
    PROVE  /\ HasDelimiter(s) <=> Len(s) >= Len(c) + 2
           /\ HasDelimiter(s) => Find(s) = Len(c) + 1 /\ ObjSent(s) = c
<1>1. /\ c \in Seq(Byte)
      /\ Len(c) \in Nat
      /\ Len(s) \in Nat
      /\ Len(w) \in Nat
      /\ CR # LF
      /\ \A i \in 1 .. Len(c) - 1 : ~(c[i] = CR /\ c[i + 1] = LF)
  BY StreamAssumption
<1>2. ASSUME NEW j \in 1 .. Len(c), DelimiterAt(s, j)
      PROVE  FALSE
  <2>1. /\ j \in 1 .. Len(s) - 1
        /\ s[j] = CR
        /\ s[j + 1] = LF
    BY <1>2 DEF DelimiterAt
  <2>2. /\ w[b + j] = CR
        /\ w[b + (j + 1)] = LF
    <3>1. j \in 1 .. Len(s) /\ j + 1 \in 1 .. Len(s)
      BY <1>1, <2>1
    <3>2. s[j] = w[b + j] /\ s[j + 1] = w[b + (j + 1)]
      BY <3>1
    <3>3. QED
      BY <2>1, <3>2
  <2>3. CASE j < Len(c)
    <3>1. j \in 1 .. Len(c) /\ j + 1 \in 1 .. Len(c) /\ j \in 1 .. Len(c) - 1
      BY <1>1, <2>3
    <3>2. c[j] = CR /\ c[j + 1] = LF
      BY <2>2, <3>1 DEF FrameAt
    <3>3. QED
      BY <1>1, <3>1, <3>2
  <2>4. CASE j = Len(c)
    <3>1. w[b + (Len(c) + 1)] = CR
      <4>1. b + (Len(c) + 1) = b + Len(c) + 1
        BY <1>1
      <4>2. QED
        BY <4>1 DEF FrameAt
    <3>2. QED
      BY <1>1, <2>2, <2>4, <3>1
  <2>5. QED
    BY <1>1, <2>3, <2>4
<1>3. ASSUME Len(s) >= Len(c) + 2
      PROVE  DelimiterAt(s, Len(c) + 1)
  <2>1. /\ s[Len(c) + 1] = w[b + (Len(c) + 1)]
        /\ s[Len(c) + 2] = w[b + (Len(c) + 2)]
    BY <1>1, <1>3
  <2>2. /\ b + (Len(c) + 1) = b + Len(c) + 1
        /\ b + (Len(c) + 2) = b + Len(c) + 2
        /\ (Len(c) + 1) + 1 = Len(c) + 2
    BY <1>1
  <2>3. QED
    BY <1>1, <1>3, <2>1, <2>2 DEF DelimiterAt, FrameAt
<1>4. ASSUME Len(s) < Len(c) + 2
      PROVE  ~HasDelimiter(s)
  BY <1>1, <1>2, <1>4 DEF HasDelimiter, DelimiterAt
<1>5. ASSUME Len(s) >= Len(c) + 2
      PROVE  /\ HasDelimiter(s)
             /\ Find(s) = Len(c) + 1
             /\ ObjSent(s) = c
  <2>1. Len(c) + 1 \in 1 .. Len(s)
    BY <1>1, <1>5
  <2>2. HasDelimiter(s)
    BY <1>3, <1>5, <2>1 DEF HasDelimiter
  <2>3. Find(s) = Len(c) + 1
    BY <1>1, <1>2, <1>3, <1>5, <2>1, FindFirst
  <2>4. ObjSent(s) = SubSeq(s, 1, Len(c))
    BY <1>1, <2>3 DEF ObjSent
  <2>5. /\ SubSeq(s, 1, Len(c)) \in Seq(Byte)
        /\ Len(SubSeq(s, 1, Len(c))) = Len(c)
        /\ \A i \in 1 .. Len(c) : SubSeq(s, 1, Len(c))[i] = s[i]
    BY <1>1, <1>5
  <2>6. \A i \in 1 .. Len(c) : SubSeq(s, 1, Len(c))[i] = c[i]
    BY <1>1, <1>5, <2>5 DEF FrameAt
  <2>7. SubSeq(s, 1, Len(c)) = c
    BY <1>1, <2>5, <2>6, SeqEqual
  <2>8. QED
    BY <2>2, <2>3, <2>4, <2>7
<1>6. QED
  BY <1>1, <1>4, <1>5

-----------------------------------------------------------------------------
\* Base is a position of the stream.
LEMMA BaseNat ==
    ASSUME Inv
    PROVE  Base \in Nat
<1>1. /\ Len(handled) \in Nat
      /\ Len(handled) <= Len(ends)
      /\ ends \in Seq(Nat)
  BY DEF Inv, TypeOK, HandledInv, InOrderExactlyOnce, WireInv
<1>2. CASE Len(handled) = 0
  BY <1>2 DEF Base, Start
<1>3. CASE Len(handled) # 0
  <2>1. /\ Len(handled) \in 1 .. Len(ends)
        /\ Base = ends[Len(handled)]
    BY <1>1, <1>3 DEF Base, Start
  <2>2. QED
    BY <1>1, <2>1
<1>4. QED
  BY <1>2, <1>3

\* What the text in msg, or msg and what a read added to it, tells of the next
\* command: s is the part of wire from Base on, up to what was received.
LEMMA NextCommand ==
    ASSUME Inv, NEW s \in Seq(Byte), s # <<>>,
           Base + Len(s) <= Len(wire),
           \A i \in 1 .. Len(s) : s[i] = wire[Base + i]
    PROVE  LET n == Len(handled)
           IN /\ n < Len(written)
              /\ HasDelimiter(s) <=> Len(s) >= Len(written[n + 1]) + 2
              /\ HasDelimiter(s) =>
                    /\ Find(s) = Len(written[n + 1]) + 1
                    /\ ObjSent(s) = written[n + 1]
<1> DEFINE n == Len(handled)
<1>1. /\ n \in Nat
      /\ Len(written) \in Nat
      /\ n <= Len(written)
      /\ Len(s) \in Nat \ {0}
      /\ wire \in Seq(Byte)
      /\ Base = Start(ends, n + 1)
      /\ Base \in Nat
  <2>1. /\ n \in Nat
        /\ Len(written) \in Nat
        /\ n <= Len(written)
        /\ wire \in Seq(Byte)
    BY DEF Inv, TypeOK, HandledInv, InOrderExactlyOnce
  <2>2. Len(s) \in Nat \ {0}
    BY EmptySeq, LenProperties
  <2>3. Base = Start(ends, n + 1)
    BY DEF Base
  <2>4. Base \in Nat
    BY BaseNat
  <2>5. QED
    BY <2>1, <2>2, <2>3, <2>4
<1>2. n # Len(written)
  BY <1>1 DEF Inv, WireInv
<1>3. n + 1 \in 1 .. Len(written)
  BY <1>1, <1>2
<1>4. /\ written[n + 1] \in Commands
      /\ FrameAt(wire, Base, written[n + 1])
  BY <1>1, <1>3 DEF Inv, TypeOK, WireInv
<1>5. /\ HasDelimiter(s) <=> Len(s) >= Len(written[n + 1]) + 2
      /\ HasDelimiter(s) =>
            /\ Find(s) = Len(written[n + 1]) + 1
            /\ ObjSent(s) = written[n + 1]
  <2>1. PICK c \in Commands : c = written[n + 1]
    BY <1>4
  <2>2. PICK b \in Nat : b = Base
    BY <1>1
  <2>3. /\ FrameAt(wire, b, c)
        /\ b + Len(s) <= Len(wire)
        /\ \A i \in 1 .. Len(s) : s[i] = wire[b + i]
    BY <1>4, <2>1, <2>2
  <2>4. /\ HasDelimiter(s) <=> Len(s) >= Len(c) + 2
        /\ HasDelimiter(s) => Find(s) = Len(c) + 1 /\ ObjSent(s) = c
    BY <1>1, <2>3, FirstCommand
  <2>5. QED
    BY <2>1, <2>4
<1>6. QED
  BY <1>1, <1>3, <1>5

\* msg with the bytes of a read appended is the part of wire from Base on.
LEMMA BufferIsWire ==
    ASSUME Inv, NEW len \in 1 .. BufSize, received + len <= Len(wire)
    PROVE  /\ Buffer(len) \in Seq(Byte)
           /\ Buffer(len) # <<>>
           /\ Len(Buffer(len)) = Len(msg) + len
           /\ Base + Len(Buffer(len)) = received + len
           /\ \A i \in 1 .. Len(Buffer(len)) : Buffer(len)[i] = wire[Base + i]
<1> DEFINE chunk == SubSeq(wire, received + 1, received + len)
<1>1. /\ msg \in Seq(Byte)
      /\ wire \in Seq(Byte)
      /\ Len(msg) \in Nat
      /\ Len(wire) \in Nat
      /\ received \in Nat
      /\ len \in Nat \ {0}
      /\ received = Base + Len(msg)
  BY StreamAssumption DEF Inv, TypeOK, MsgInv
<1>2. Base \in Nat
  BY BaseNat
<1>3. /\ chunk \in Seq(Byte)
      /\ Len(chunk) = len
      /\ \A i \in 1 .. len : chunk[i] = wire[received + i]
  <2>1. PICK n \in Nat, k \in Nat \ {0} : n = received + len /\ k = received + 1
    BY <1>1
  <2>2. /\ SubSeq(wire, k, n) \in Seq(Byte)
        /\ Len(SubSeq(wire, k, n)) = n + 1 - k
        /\ \A i \in 1 .. n + 1 - k : SubSeq(wire, k, n)[i] = wire[(k - 1) + i]
    BY <1>1, <2>1, SubSeqElements
  <2>3. n + 1 - k = len /\ k - 1 = received /\ chunk = SubSeq(wire, k, n)
    BY <1>1, <2>1
  <2>4. QED
    BY <2>2, <2>3
<1> HIDE DEF chunk
<1>4. /\ Buffer(len) \in Seq(Byte)
      /\ Len(Buffer(len)) = Len(msg) + len
      /\ \A i \in 1 .. Len(msg) : Buffer(len)[i] = msg[i]
      /\ \A i \in 1 .. len : Buffer(len)[Len(msg) + i] = chunk[i]
  <2>1. Buffer(len) = msg \o chunk
    BY DEF Buffer, chunk
  <2>2. msg \in Seq(Byte) /\ chunk \in Seq(Byte)
    BY <1>1, <1>3
  <2>3. /\ msg \o chunk \in Seq(Byte)
        /\ Len(msg \o chunk) = Len(msg) + Len(chunk)
        /\ \A i \in 1 .. Len(msg) : (msg \o chunk)[i] = msg[i]
        /\ \A i \in 1 .. Len(chunk) : (msg \o chunk)[Len(msg) + i] = chunk[i]
    BY ONLY <2>2, ConcatElements
  <2>4. QED
    BY <1>3, <2>1, <2>3
<1>5. ASSUME NEW i \in 1 .. Len(msg) + len
      PROVE  Buffer(len)[i] = wire[Base + i]
  <2>1. CASE i <= Len(msg)
    BY <1>1, <1>4, <2>1 DEF Inv, MsgInv
  <2>2. CASE i > Len(msg)
    <3>1. PICK j \in 1 .. len : i = Len(msg) + j
      <4>1. i - Len(msg) \in 1 .. len /\ i = Len(msg) + (i - Len(msg))
        BY <1>1, <2>2
      <4>2. QED
        BY <4>1
    <3>2. Base + i = received + j
      BY <1>1, <1>2, <3>1
    <3>3. QED
      BY <1>3, <1>4, <3>1, <3>2
  <2>3. QED
    BY <1>1, <2>1, <2>2
<1>6. Buffer(len) # <<>>
  BY <1>1, <1>4
<1>7. QED
  BY <1>1, <1>2, <1>4, <1>5, <1>6

-----------------------------------------------------------------------------
\* Initially nothing is written and nothing handled.
LEMMA InitInv == Init => Inv
<1> SUFFICES ASSUME Init PROVE Inv
  OBVIOUS
<1>1. TypeOK
  BY DEF Init, TypeOK
<1>2. WireInv
  BY DEF Init, WireInv, Start
<1>3. HandledInv
  BY DEF Init, HandledInv, InOrderExactlyOnce
<1>4. MsgInv
  BY DEF Init, MsgInv, Base, Start
<1>5. TerminationExplained
  BY DEF Init, TerminationExplained
<1>6. QED
  BY <1>1, <1>2, <1>3, <1>4, <1>5 DEF Inv

\* A frame of the stream stays where it is when the stream grows.
LEMMA FrameStays ==
    ASSUME NEW w \in Seq(Byte), NEW v \in Seq(Byte), NEW b \in Nat, NEW c,
           Len(c) \in Nat,
           FrameAt(w, b, c),
           Len(w) <= Len(v),
           \A i \in 1 .. Len(w) : v[i] = w[i]
    PROVE  FrameAt(v, b, c)
<1>1. /\ Len(w) \in Nat
      /\ Len(v) \in Nat
      /\ b + Len(c) + 2 <= Len(w)
  BY DEF FrameAt
<1>2. /\ b + Len(c) + 2 <= Len(v)
      /\ b + Len(c) + 1 \in 1 .. Len(w)
      /\ b + Len(c) + 2 \in 1 .. Len(w)
      /\ \A i \in 1 .. Len(c) : b + i \in 1 .. Len(w)
  BY <1>1
<1>3. QED
  BY <1>2 DEF FrameAt

\* What the service writes: w stays, and the frame of c follows.
LEMMA AppendFrame ==
    ASSUME NEW w \in Seq(Byte), NEW c \in Seq(Byte)
    PROVE  /\ w \o c \o delimitter \in Seq(Byte)
           /\ Len(w \o c \o delimitter) = Len(w) + Len(c) + 2
           /\ \A i \in 1 .. Len(w) : (w \o c \o delimitter)[i] = w[i]
           /\ FrameAt(w \o c \o delimitter, Len(w), c)
<1>1. PICK d \in Seq(Byte) :
          d = delimitter /\ Len(d) = 2 /\ d[1] = CR /\ d[2] = LF
  <2>1. /\ <<CR, LF>> \in Seq(Byte)
        /\ Len(<<CR, LF>>) = 2
        /\ <<CR, LF>>[1] = CR
        /\ <<CR, LF>>[2] = LF
    BY StreamAssumption
  <2>2. QED
    BY <2>1 DEF delimitter
<1>2. PICK u : u = w \o c
  OBVIOUS
<1>3. /\ u \in Seq(Byte)
      /\ Len(u) = Len(w) + Len(c)
      /\ \A i \in 1 .. Len(w) : u[i] = w[i]
      /\ \A i \in 1 .. Len(c) : u[Len(w) + i] = c[i]
  BY ONLY <1>2, ConcatElements, w \in Seq(Byte), c \in Seq(Byte)
<1>4. PICK v : v = u \o d
  OBVIOUS
<1>5. /\ v \in Seq(Byte)
      /\ Len(v) = Len(u) + 2
      /\ \A i \in 1 .. Len(u) : v[i] = u[i]
      /\ v[Len(u) + 1] = CR
      /\ v[Len(u) + 2] = LF
  <2>1. /\ v \in Seq(Byte)
        /\ Len(v) = Len(u) + Len(d)
        /\ \A i \in 1 .. Len(u) : v[i] = u[i]
        /\ \A i \in 1 .. Len(d) : v[Len(u) + i] = d[i]
    BY ONLY <1>3, <1>4, ConcatElements, d \in Seq(Byte)
  <2>2. QED
    BY <1>1, <2>1
<1>6. /\ Len(w) \in Nat
      /\ Len(c) \in Nat
  OBVIOUS
<1>7. \A i \in 1 .. Len(w) : v[i] = w[i]
  BY <1>3, <1>5, <1>6
<1>8. ASSUME NEW i \in 1 .. Len(c)
      PROVE  v[Len(w) + i] = c[i]
  <2>1. Len(w) + i \in 1 .. Len(u)
    BY <1>3, <1>6
  <2>2. QED
    BY <1>3, <1>5, <2>1
<1>9. FrameAt(v, Len(w), c)
  BY <1>3, <1>5, <1>6, <1>8 DEF FrameAt
<1>10. v = w \o c \o delimitter
  BY <1>1, <1>2, <1>4
<1>11. QED
  BY <1>3, <1>5, <1>6, <1>7, <1>9, <1>10

\* The service appends one frame to wire and leaves what is there alone.
LEMMA WriteCommandInv == Inv /\ WriteCommand => Inv'
<1> SUFFICES ASSUME Inv, WriteCommand PROVE Inv'
  OBVIOUS
<1>1. PICK c \in Commands :
          /\ written' = Append(written, c)
          /\ wire' = wire \o c \o delimitter
          /\ ends' = Append(ends, Len(wire) + Len(c) + 2)
  BY DEF WriteCommand
<1>2. UNCHANGED <<peer, received, msg, handled, reader>>
  BY DEF WriteCommand, readerVars
<1>3. /\ c \in Seq(Byte)
      /\ Len(c) \in Nat
      /\ wire \in Seq(Byte)
      /\ Len(wire) \in Nat
      /\ ends \in Seq(Nat)
      /\ written \in Seq(Commands)
      /\ Len(written) \in Nat
      /\ Len(ends) = Len(written)
      /\ received \in 0 .. Len(wire)
      /\ Len(wire) = Start(ends, Len(written) + 1)
  BY StreamAssumption DEF Inv, TypeOK, WireInv
<1>4. /\ wire' \in Seq(Byte)
      /\ Len(wire') = Len(wire) + Len(c) + 2
      /\ \A i \in 1 .. Len(wire) : wire'[i] = wire[i]
      /\ FrameAt(wire', Len(wire), c)
  BY <1>1, <1>3, AppendFrame
<1>5. /\ written' \in Seq(Commands)
      /\ Len(written') = Len(written) + 1
      /\ \A k \in 1 .. Len(written) : written'[k] = written[k]
      /\ written'[Len(written) + 1] = c
  BY <1>1, <1>3, AppendProperties
<1>6. /\ ends' \in Seq(Nat)
      /\ Len(ends') = Len(written) + 1
      /\ \A k \in 1 .. Len(written) : ends'[k] = ends[k]
      /\ ends'[Len(written) + 1] = Len(wire) + Len(c) + 2
  BY <1>1, <1>3, AppendProperties
<1>7. ASSUME NEW k \in 1 .. Len(written) + 1
      PROVE  /\ Start(ends', k) = Start(ends, k)
             /\ Start(ends, k) \in Nat
  <2>1. CASE k = 1
    BY <2>1 DEF Start
  <2>2. CASE k # 1
    <3>1. k - 1 \in 1 .. Len(written)
      BY <1>3, <2>2
    <3>2. PICK j \in 1 .. Len(written) : j = k - 1
      BY <3>1
    <3>3. Start(ends', k) = ends'[j] /\ Start(ends, k) = ends[j]
      BY <2>2, <3>2 DEF Start
    <3>4. ends'[j] = ends[j]
      BY <1>6
    <3>5. j \in 1 .. Len(ends)
      BY <1>3
    <3>6. ends[j] \in Nat
      BY <1>3, <3>5, ElementOfSeq
    <3>7. QED
      BY <3>3, <3>4, <3>6
  <2>3. QED
    BY <2>1, <2>2
<1>8. TypeOK'
  BY <1>2, <1>3, <1>4, <1>5, <1>6 DEF Inv, TypeOK
<1>9. WireInv'
  <2>1. ASSUME NEW k \in 1 .. Len(written)
        PROVE  /\ ends'[k] = Start(ends', k) + Len(written'[k]) + 2
               /\ FrameAt(wire', Start(ends', k), written'[k])
    <3>1. /\ ends[k] = Start(ends, k) + Len(written[k]) + 2
          /\ FrameAt(wire, Start(ends, k), written[k])
      BY DEF Inv, WireInv
    <3>2. /\ k \in 1 .. Len(written) + 1
          /\ Start(ends, k) \in Nat
          /\ written[k] \in Seq(Byte)
          /\ Len(written[k]) \in Nat
      <4>1. written[k] \in Seq(Byte)
        BY <1>3, StreamAssumption
      <4>2. k \in 1 .. Len(written) + 1
        BY <1>3
      <4>3. QED
        BY <1>7, <4>1, <4>2
    <3>3. FrameAt(wire', Start(ends, k), written[k])
      <4>1. PICK b \in Nat, x \in Seq(Byte) : b = Start(ends, k) /\ x = written[k]
        BY <3>2
      <4>2. Len(x) \in Nat /\ FrameAt(wire, b, x) /\ Len(wire) <= Len(wire')
        BY <1>3, <1>4, <3>1, <3>2, <4>1
      <4>3. FrameAt(wire', b, x)
        BY <1>3, <1>4, <4>2, FrameStays
      <4>4. QED
        BY <4>1, <4>3
    <3>4. QED
      <4>1. ends'[k] = ends[k] /\ written'[k] = written[k] /\ Start(ends', k) = Start(ends, k)
        BY <1>5, <1>6, <1>7, <3>2
      <4>2. QED
        BY <3>1, <3>3, <4>1
  <2>2. /\ ends'[Len(written) + 1] = Start(ends', Len(written) + 1) + Len(c) + 2
        /\ FrameAt(wire', Start(ends', Len(written) + 1), c)
    <3>1. Start(ends', Len(written) + 1) = Len(wire)
      <4>1. Len(written) + 1 \in 1 .. Len(written) + 1
        BY <1>3
      <4>2. QED
        BY <1>3, <1>7, <4>1
    <3>2. QED
      BY <1>4, <1>6, <3>1
  <2>3. Len(wire') = Start(ends', Len(written') + 1)
    <3>1. Start(ends', Len(written') + 1) = ends'[Len(written) + 1]
      BY <1>3, <1>5 DEF Start
    <3>2. QED
      BY <1>4, <1>6, <3>1
  <2>4. ASSUME NEW k \in 1 .. Len(written')
        PROVE  /\ ends'[k] = Start(ends', k) + Len(written'[k]) + 2
               /\ FrameAt(wire', Start(ends', k), written'[k])
    <3>1. CASE k \in 1 .. Len(written)
      BY <2>1, <3>1
    <3>2. CASE k = Len(written) + 1
      BY <1>5, <2>2, <3>2
    <3>3. QED
      BY <1>3, <1>5, <3>1, <3>2
  <2>5. QED
    BY <1>5, <1>6, <2>3, <2>4 DEF WireInv
<1>10. HandledInv'
  BY <1>2, <1>3, <1>5 DEF Inv, HandledInv, InOrderExactlyOnce
<1>11. MsgInv'
  <2>1. Len(handled) \in Nat /\ Len(handled) <= Len(written)
    BY DEF Inv, TypeOK, HandledInv, InOrderExactlyOnce
  <2>2. Base' = Base
    BY <1>2, <1>3, <1>7, <2>1 DEF Base
  <2>3. ASSUME NEW i \in 1 .. Len(msg)
        PROVE  msg[i] = wire'[Base + i]
    <3>1. Len(msg) \in Nat /\ Base \in Nat /\ received = Base + Len(msg)
      BY BaseNat DEF Inv, TypeOK, MsgInv
    <3>2. Base + i \in 1 .. Len(wire)
      BY <1>3, <3>1
    <3>3. QED
      BY <1>4, <3>2 DEF Inv, MsgInv
  <2>4. QED
    BY <1>2, <2>2, <2>3 DEF Inv, MsgInv
<1>12. TerminationExplained'
  <2> SUFFICES ASSUME reader' = "terminated", peer' # "reset"
               PROVE  \E n \in 1 .. Len(written') :
                          n = Len(handled') /\ handled'[n] = written'[n] /\ written'[n] \in Malformed
    BY DEF TerminationExplained
  <2>1. PICK n \in 1 .. Len(written) :
            n = Len(handled) /\ handled[n] = written[n] /\ written[n] \in Malformed
    BY <1>2 DEF Inv, TerminationExplained
  <2>2. n \in 1 .. Len(written') /\ written'[n] = written[n]
    BY <1>3, <1>5
  <2>3. QED
    BY <1>2, <2>1, <2>2
<1>13. QED
  BY <1>8, <1>9, <1>10, <1>11, <1>12 DEF Inv

\* A read that completes no command only lengthens msg.
LEMMA ReadNothingInv ==
    ASSUME Inv, NEW len \in 1 .. BufSize, ReadSome(len), ~HasDelimiter(Buffer(len))
    PROVE  Inv'
<1>1. /\ received + len <= Len(wire)
      /\ received' = received + len
      /\ msg' = Buffer(len)
      /\ UNCHANGED <<written, wire, ends, peer, handled, reader>>
  BY DEF ReadSome, serviceVars
<1>2. /\ Buffer(len) \in Seq(Byte)
      /\ Base + Len(Buffer(len)) = received + len
      /\ \A i \in 1 .. Len(Buffer(len)) : Buffer(len)[i] = wire[Base + i]
  BY <1>1, BufferIsWire
<1>3. TypeOK'
  <2>1. received + len \in 0 .. Len(wire)
    BY <1>1, StreamAssumption DEF Inv, TypeOK
  <2>2. QED
    BY <1>1, <1>2, <2>1 DEF Inv, TypeOK
<1>4. WireInv'
  BY <1>1 DEF Inv, WireInv, FrameAt, Start
<1>5. HandledInv'
  BY <1>1 DEF Inv, HandledInv, InOrderExactlyOnce
<1>6. MsgInv'
  <2>1. Base' = Base
    BY <1>1 DEF Base
  <2>2. QED
    BY <1>1, <1>2, <2>1 DEF MsgInv
<1>7. TerminationExplained'
  BY <1>1 DEF Inv, TerminationExplained
<1>8. QED
  BY <1>3, <1>4, <1>5, <1>6, <1>7 DEF Inv

\* A read that completes a command hands over the next one the service wrote.
LEMMA ReadCommand ==
    ASSUME Inv, NEW len \in 1 .. BufSize, ReadSome(len), HasDelimiter(Buffer(len))
    PROVE  /\ Len(handled) < Len(written)
           /\ handled' = Append(handled, written[Len(handled) + 1])
           /\ msg' = SubSeq(Buffer(len), Len(written[Len(handled) + 1]) + 3, Len(Buffer(len)))
           /\ Len(Buffer(len)) >= Len(written[Len(handled) + 1]) + 2
           /\ received' = received + len
           /\ reader' = reader \/ written[Len(handled) + 1] \in Malformed
           /\ reader' \in {"reading", "terminated"}
           /\ UNCHANGED <<written, wire, ends, peer>>
<1> DEFINE c == written[Len(handled) + 1]
<1>1. /\ received + len <= Len(wire)
      /\ received' = received + len
      /\ UNCHANGED <<written, wire, ends, peer>>
  BY DEF ReadSome, serviceVars
<1>2. /\ Buffer(len) \in Seq(Byte)
      /\ Buffer(len) # <<>>
      /\ Base + Len(Buffer(len)) = received + len
      /\ \A i \in 1 .. Len(Buffer(len)) : Buffer(len)[i] = wire[Base + i]
  BY <1>1, BufferIsWire
<1>3. /\ Len(handled) < Len(written)
      /\ Len(Buffer(len)) >= Len(c) + 2
      /\ Find(Buffer(len)) = Len(c) + 1
      /\ ObjSent(Buffer(len)) = c
  BY <1>1, <1>2, NextCommand
<1>4. c \in Commands /\ Len(c) \in Nat
  <2>1. Len(handled) + 1 \in 1 .. Len(written)
    BY <1>3 DEF Inv, TypeOK
  <2>2. c \in Commands
    BY <2>1 DEF Inv, TypeOK
  <2>3. QED
    BY <2>2, StreamAssumption
<1>5. /\ handled' = Append(handled, c)
      /\ reader' = reader \/ c \in Malformed
      /\ reader' \in {"reading", "terminated"}
      /\ msg' = Erase(Buffer(len))
  <2>1. c \in Meanings(c)
    BY <1>4 DEF Meanings
  <2>2. Parses(c) /\ (Digests(c) \/ c \in Malformed)
    BY <2>1 DEF Parses, Digests
  <2>3. QED
    BY <1>3, <2>2 DEF ReadSome
<1>6. Erase(Buffer(len)) = SubSeq(Buffer(len), Len(c) + 3, Len(Buffer(len)))
  <2>1. Len(delimitter) = 2
    BY DEF delimitter
  <2>2. Len(c) + 1 + 2 = Len(c) + 3
    BY <1>4
  <2>3. QED
    BY <1>3, <2>1, <2>2 DEF Erase
<1>7. QED
  BY <1>1, <1>3, <1>5, <1>6

LEMMA ReadCommandInv ==
    ASSUME Inv, NEW len \in 1 .. BufSize, ReadSome(len), HasDelimiter(Buffer(len))
    PROVE  Inv'
<1> DEFINE n == Len(handled)
           buf == Buffer(len)
<1>1. PICK c : c = written[n + 1]
  OBVIOUS
<1>2. /\ n < Len(written)
      /\ handled' = Append(handled, c)
      /\ msg' = SubSeq(buf, Len(c) + 3, Len(buf))
      /\ Len(buf) >= Len(c) + 2
      /\ received' = received + len
      /\ reader' = reader \/ c \in Malformed
      /\ reader' \in {"reading", "terminated"}
      /\ UNCHANGED <<written, wire, ends, peer>>
  BY <1>1, ReadCommand
<1>3. received + len <= Len(wire)
  BY DEF ReadSome
<1>4. /\ buf \in Seq(Byte)
      /\ Len(buf) \in Nat
      /\ Base + Len(buf) = received + len
      /\ \A i \in 1 .. Len(buf) : buf[i] = wire[Base + i]
  BY <1>3, BufferIsWire
<1> HIDE DEF buf
<1>5. /\ n \in Nat
      /\ n + 1 \in 1 .. Len(written)
      /\ handled \in Seq(Commands)
      /\ Len(written) \in Nat
      /\ Len(ends) = Len(written)
  BY <1>2 DEF Inv, TypeOK, WireInv
<1>6. c \in Commands /\ Len(c) \in Nat
  <2>1. c \in Commands
    BY <1>1, <1>5 DEF Inv, TypeOK
  <2>2. QED
    BY <2>1, StreamAssumption
<1>7. /\ handled' \in Seq(Commands)
      /\ Len(handled') = n + 1
      /\ \A k \in 1 .. n : handled'[k] = handled[k]
      /\ handled'[n + 1] = c
  BY <1>2, <1>5, <1>6, AppendProperties
<1>8. Base' = Base + Len(c) + 2
  <2>1. ends[n + 1] = Start(ends, n + 1) + Len(c) + 2
    BY <1>1, <1>5 DEF Inv, WireInv
  <2>2. Base' = Start(ends, n + 2)
    <3>1. Base' = Start(ends', Len(handled') + 1)
      BY DEF Base
    <3>2. (n + 1) + 1 = n + 2
      BY <1>5
    <3>3. QED
      BY <1>2, <1>7, <3>1, <3>2
  <2>3. Start(ends, n + 2) = ends[n + 1]
    BY <1>5 DEF Start
  <2>4. QED
    BY <2>1, <2>2, <2>3 DEF Base
<1>9. /\ msg' \in Seq(Byte)
      /\ Len(msg') = Len(buf) - (Len(c) + 2)
      /\ \A i \in 1 .. Len(msg') : msg'[i] = buf[(Len(c) + 2) + i]
  <2>1. PICK k \in Nat \ {0}, m \in Nat : k = Len(c) + 3 /\ m = Len(buf)
    BY <1>4, <1>6
  <2>2. /\ SubSeq(buf, k, m) \in Seq(Byte)
        /\ Len(SubSeq(buf, k, m)) = m + 1 - k
        /\ \A i \in 1 .. m + 1 - k : SubSeq(buf, k, m)[i] = buf[(k - 1) + i]
    <3>1. k <= m + 1 /\ m <= Len(buf)
      BY <1>2, <1>4, <1>6, <2>1
    <3>2. QED
      BY <1>4, <3>1, SubSeqElements
  <2>3. /\ msg' = SubSeq(buf, k, m)
        /\ m + 1 - k = Len(buf) - (Len(c) + 2)
        /\ k - 1 = Len(c) + 2
    BY <1>2, <1>4, <1>6, <2>1
  <2>4. QED
    BY <2>2, <2>3
<1>10. Base \in Nat
  BY BaseNat
<1>11. TypeOK'
  <2>1. received + len \in 0 .. Len(wire)
    BY <1>3, StreamAssumption DEF Inv, TypeOK
  <2>2. QED
    BY <1>2, <1>7, <1>9, <2>1 DEF Inv, TypeOK
<1>12. WireInv'
  BY <1>2 DEF Inv, WireInv, FrameAt, Start
<1>13. HandledInv'
  <2>1. \A k \in 1 .. n + 1 : handled'[k] = written[k]
    BY <1>1, <1>5, <1>7 DEF Inv, HandledInv, InOrderExactlyOnce
  <2>2. QED
    BY <1>2, <1>5, <1>7, <2>1 DEF HandledInv, InOrderExactlyOnce
<1>14. MsgInv'
  <2>1. received' = Base' + Len(msg')
    <3>1. received' = Base + Len(buf)
      BY <1>2, <1>4
    <3>2. /\ Base' = Base + Len(c) + 2
          /\ Len(msg') = Len(buf) - (Len(c) + 2)
      BY <1>8, <1>9
    <3>3. PICK b \in Nat, m \in Nat, k \in Nat : b = Base /\ m = Len(buf) /\ k = Len(c)
      BY <1>4, <1>6, <1>10
    <3>4. b + m = (b + k + 2) + (m - (k + 2))
      OBVIOUS
    <3>5. QED
      BY <3>1, <3>2, <3>3, <3>4
  <2>2. ASSUME NEW i \in 1 .. Len(msg')
        PROVE  msg'[i] = wire'[Base' + i]
    <3>1. /\ (Len(c) + 2) + i \in 1 .. Len(buf)
          /\ Base + ((Len(c) + 2) + i) = Base' + i
      BY <1>4, <1>6, <1>8, <1>9, <1>10
    <3>2. QED
      BY <1>2, <1>4, <1>9, <3>1
  <2>3. QED
    BY <2>1, <2>2 DEF MsgInv
<1>15. TerminationExplained'
  <2> SUFFICES ASSUME reader' = "terminated"
               PROVE  \E k \in 1 .. Len(written') :
                          k = Len(handled') /\ handled'[k] = written'[k] /\ written'[k] \in Malformed
    BY DEF TerminationExplained
  <2>1. c \in Malformed
    BY <1>2 DEF ReadSome
  <2>2. n + 1 \in 1 .. Len(written') /\ written'[n + 1] = c
    BY <1>1, <1>2, <1>5
  <2>3. QED
    BY <1>7, <2>1, <2>2
<1>16. QED
  BY <1>11, <1>12, <1>13, <1>14, <1>15 DEF Inv

\* A disconnection, an EOF and an error change neither the stream nor msg.
LEMMA OtherInv ==
    ASSUME Inv, Disconnect \/ ReadEof \/ ReadError \/ UNCHANGED vars
    PROVE  Inv'
<1>1. UNCHANGED <<written, wire, ends, received, msg, handled>>
  BY DEF Disconnect, ReadEof, ReadError, vars, serviceVars, readerVars
<1>2. TypeOK' /\ TerminationExplained'
  BY DEF Disconnect, ReadEof, ReadError, vars, serviceVars, readerVars,
         Inv, TypeOK, TerminationExplained
<1>3. WireInv' /\ HandledInv' /\ MsgInv'
  BY <1>1 DEF Inv, WireInv, FrameAt, Start, HandledInv, InOrderExactlyOnce, MsgInv, Base
<1>4. QED
  BY <1>2, <1>3 DEF Inv

-----------------------------------------------------------------------------
\* The invariant is inductive.
LEMMA StepInv == Inv /\ [Next]_vars => Inv'
<1> SUFFICES ASSUME Inv, [Next]_vars PROVE Inv'
  OBVIOUS
<1>1. CASE WriteCommand
  BY <1>1, WriteCommandInv
<1>2. CASE Disconnect
  BY <1>2, OtherInv
<1>3. ASSUME NEW len \in 1 .. BufSize, ReadSome(len) PROVE Inv'
  BY <1>3, ReadNothingInv, ReadCommandInv
<1>4. CASE ReadEof
  BY <1>4, OtherInv
<1>5. CASE ReadError
  BY <1>5, OtherInv
<1>6. CASE UNCHANGED vars
  BY <1>6, OtherInv
<1>7. QED
  BY <1>1, <1>2, <1>3, <1>4, <1>5, <1>6 DEF Next, StartReading

THEOREM Invariance == Spec => []Inv
<1>1. Init => Inv
  BY InitInv
<1>2. Inv /\ [Next]_vars => Inv'
  BY StepInv
<1>3. QED
  BY <1>1, <1>2, PTL DEF Spec

\* Every variable always has its type.
THEOREM TypeCorrect == Spec => []TypeOK
<1>1. Inv => TypeOK
  BY DEF Inv
<1>2. QED
  BY <1>1, Invariance, PTL

\* command_handler is called with the commands the service wrote, in the order
\* written, each once and unaltered, however TCP cuts the stream.
THEOREM HandledInOrder == Spec => []InOrderExactlyOnce
<1>1. Inv => InOrderExactlyOnce
  BY DEF Inv, HandledInv
<1>2. QED
  BY <1>1, Invariance, PTL

\* An exception leaves the thread only after a reset, or out of command_handler called
\* with a malformed command the service wrote: the parser never gets another text.
THEOREM ThrowsAreExplained == Spec => []TerminationExplained
<1>1. Inv => TerminationExplained
  BY DEF Inv
<1>2. QED
  BY <1>1, Invariance, PTL

-----------------------------------------------------------------------------
\* What is left in msg is shorter than the frame of the next command.
ShortMsg ==
    CommandsFillBuf =>
        \A k \in 1 .. Len(written) :
            k = Len(handled) + 1 => Len(msg) < Len(written[k]) + 2

\* msg holds a delimiter only if it holds the frame of the next command.
LEMMA ShortMsgSuffices == Inv /\ ShortMsg => NoBacklogOfLongCommands
<1> SUFFICES ASSUME Inv, ShortMsg, CommandsFillBuf, HasDelimiter(msg)
             PROVE  FALSE
  BY DEF NoBacklogOfLongCommands
<1>1. msg \in Seq(Byte) /\ msg # <<>>
  BY DEF Inv, TypeOK, HasDelimiter
<1>2. /\ Base + Len(msg) <= Len(wire)
      /\ \A i \in 1 .. Len(msg) : msg[i] = wire[Base + i]
  BY DEF Inv, TypeOK, MsgInv
<1>3. PICK k : k = Len(handled) + 1
  OBVIOUS
<1>4. /\ Len(handled) < Len(written)
      /\ Len(msg) >= Len(written[k]) + 2
  BY <1>1, <1>2, <1>3, NextCommand
<1>5. k \in 1 .. Len(written)
  BY <1>3, <1>4 DEF Inv, TypeOK
<1>6. written[k] \in Seq(Byte) /\ Len(msg) \in Nat
  BY <1>1, <1>5, StreamAssumption DEF Inv, TypeOK
<1>7. QED
  BY <1>3, <1>4, <1>5, <1>6 DEF ShortMsg

\* A command written stays written: if they all fill buf now, they all did before.
LEMMA CommandsFillBufBefore ==
    ASSUME Inv, [Next]_vars, CommandsFillBuf'
    PROVE  CommandsFillBuf
<1>1. CASE WriteCommand
  <2>1. PICK c \in Commands : written' = Append(written, c)
    BY <1>1 DEF WriteCommand
  <2>2. /\ Len(written') = Len(written) + 1
        /\ \A k \in 1 .. Len(written) : written'[k] = written[k]
    BY <2>1 DEF Inv, TypeOK
  <2>3. Len(written) \in Nat
    BY DEF Inv, TypeOK
  <2>4. QED
    BY <2>2, <2>3 DEF CommandsFillBuf, delimitter
<1>2. CASE ~WriteCommand
  <2>1. written' = written
    BY <1>2 DEF Next, Disconnect, StartReading, ReadSome, ReadEof, ReadError, vars, serviceVars
  <2>2. QED
    BY <2>1 DEF CommandsFillBuf, delimitter
<1>3. QED
  BY <1>1, <1>2

\* A read adds at most the size of buf to a msg without a delimiter, and takes
\* one frame out of it, which is at least as long.
LEMMA ShortMsgStep == Inv /\ ShortMsg /\ [Next]_vars => ShortMsg'
<1> SUFFICES ASSUME Inv, ShortMsg, [Next]_vars, CommandsFillBuf',
                    NEW k \in 1 .. Len(written'), k = Len(handled') + 1
             PROVE  Len(msg') < Len(written'[k]) + 2
  BY DEF ShortMsg
<1>0. CommandsFillBuf
  BY CommandsFillBufBefore
<1>1. /\ Len(written) \in Nat
      /\ Len(handled) \in Nat
      /\ Len(msg) \in Nat
      /\ Len(delimitter) = 2
      /\ BufSize \in Nat \ {0}
      /\ Inv'
  BY StepInv, StreamAssumption DEF Inv, TypeOK, delimitter
<1>2. written'[k] \in Commands /\ Len(written'[k]) \in Nat
  <2>1. written'[k] \in Commands
    BY <1>1 DEF Inv, TypeOK
  <2>2. QED
    BY <2>1, StreamAssumption
<1>3. CASE WriteCommand
  <2>1. PICK c \in Commands : written' = Append(written, c)
    BY <1>3 DEF WriteCommand
  <2>2. UNCHANGED <<msg, handled, received>>
    BY <1>3 DEF WriteCommand, readerVars
  <2>3. CASE k \in 1 .. Len(written)
    BY <1>0, <1>1, <2>1, <2>2, <2>3 DEF ShortMsg, Inv, TypeOK
  <2>4. CASE k = Len(written) + 1
    <3>1. Len(handled) = Len(written)
      BY <1>1, <2>2, <2>4
    <3>2. Base = Len(wire)
      BY <3>1 DEF Inv, WireInv, Base
    <3>3. Len(msg) = 0
      <4>1. received <= Len(wire) /\ received = Base + Len(msg) /\ Len(wire) \in Nat
        BY DEF Inv, TypeOK, MsgInv
      <4>2. QED
        BY <1>1, <3>2, <4>1
    <3>4. QED
      BY <1>2, <2>2, <3>3
  <2>5. QED
    <3>1. Len(written') = Len(written) + 1
      BY <2>1 DEF Inv, TypeOK
    <3>2. QED
      BY <1>1, <2>3, <2>4, <3>1
<1>4. ASSUME NEW len \in 1 .. BufSize, ReadSome(len)
      PROVE  Len(msg') < Len(written'[k]) + 2
  <2>1. /\ Buffer(len) \in Seq(Byte)
        /\ Buffer(len) # <<>>
        /\ Len(Buffer(len)) = Len(msg) + len
        /\ Base + Len(Buffer(len)) <= Len(wire)
        /\ \A i \in 1 .. Len(Buffer(len)) : Buffer(len)[i] = wire[Base + i]
        /\ UNCHANGED written
    BY <1>4, BufferIsWire DEF ReadSome, serviceVars
  <2>2. CASE HasDelimiter(Buffer(len))
    <3>1. PICK j, c : j = Len(handled) + 1 /\ c = written[j]
      OBVIOUS
    <3>2. /\ Len(handled) < Len(written)
          /\ handled' = Append(handled, c)
          /\ msg' = SubSeq(Buffer(len), Len(c) + 3, Len(Buffer(len)))
          /\ Len(Buffer(len)) >= Len(c) + 2
      BY <1>4, <2>2, <3>1, ReadCommand
    <3>3. j \in 1 .. Len(written)
      BY <1>1, <3>1, <3>2
    <3>4. c \in Commands /\ Len(c) \in Nat
      <4>1. c \in Commands
        BY <3>1, <3>3 DEF Inv, TypeOK
      <4>2. QED
        BY <4>1, StreamAssumption
    <3>5. Len(msg) < Len(c) + 2
      BY <1>0, <3>1, <3>3 DEF ShortMsg
    <3>6. Len(msg') = Len(msg) + len - (Len(c) + 2)
      <4>1. PICK p \in Nat \ {0}, m \in Nat : p = Len(c) + 3 /\ m = Len(Buffer(len))
        BY <2>1, <3>4
      <4>2. p <= m + 1 /\ m <= Len(Buffer(len)) /\ msg' = SubSeq(Buffer(len), p, m)
        BY <3>2, <3>4, <4>1
      <4>3. Len(msg') = m + 1 - p
        BY <2>1, <4>2, SubSeqElements
      <4>4. QED
        BY <1>1, <2>1, <3>4, <4>1, <4>3
    <3>7. Len(written'[k]) + 2 >= BufSize
      BY <1>1, <1>2 DEF CommandsFillBuf
    <3>8. len \in Nat /\ len <= BufSize
      BY <1>1
    <3>9. QED
      BY <1>1, <1>2, <3>4, <3>5, <3>6, <3>7, <3>8
  <2>3. CASE ~HasDelimiter(Buffer(len))
    <3>1. msg' = Buffer(len) /\ UNCHANGED handled
      BY <1>4, <2>3 DEF ReadSome
    <3>2. ~(Len(Buffer(len)) >= Len(written[k]) + 2)
      BY <2>1, <2>3, <3>1, NextCommand
    <3>3. QED
      BY <1>2, <2>1, <3>1, <3>2
  <2>4. QED
    BY <2>2, <2>3
<1>5. CASE Disconnect \/ ReadEof \/ ReadError \/ UNCHANGED vars
  <2>1. UNCHANGED <<written, handled, msg>>
    BY <1>5 DEF Disconnect, ReadEof, ReadError, vars, serviceVars, readerVars
  <2>2. QED
    BY <1>0, <2>1 DEF ShortMsg
<1>6. QED
  BY <1>3, <1>4, <1>5 DEF Next, StartReading

\* When every command fills buf, no complete command is ever left behind in msg.
THEOREM NoBacklog == Spec => []NoBacklogOfLongCommands
<1>1. Init => ShortMsg
  BY DEF Init, ShortMsg
<1>2. Inv /\ ShortMsg /\ [Next]_vars => ShortMsg'
  BY ShortMsgStep
<1>3. Inv /\ ShortMsg => NoBacklogOfLongCommands
  BY ShortMsgSuffices
<1>4. QED
  BY <1>1, <1>2, <1>3, Invariance, PTL DEF Spec

-----------------------------------------------------------------------------
\* The reader implements the channel: writing a command is Write, a read that
\* completes one is Handle, everything else leaves both histories alone.
THEOREM Refinement == Spec => ImplementsChannel
<1>1. Init => Channel!Init
  BY DEF Init, Channel!Init
<1>2. ASSUME Inv, [Next]_vars
      PROVE  [Channel!Next]_(Channel!channelVars)
  <2>1. CASE WriteCommand
    BY <2>1 DEF WriteCommand, readerVars, Channel!Next, Channel!Write
  <2>2. ASSUME NEW len \in 1 .. BufSize, ReadSome(len)
        PROVE  [Channel!Next]_(Channel!channelVars)
    <3>1. CASE HasDelimiter(Buffer(len))
      BY <1>2, <2>2, <3>1, ReadCommand DEF Channel!Next, Channel!Handle
    <3>2. CASE ~HasDelimiter(Buffer(len))
      BY <2>2, <3>2 DEF ReadSome, serviceVars, Channel!channelVars
    <3>3. QED
      BY <3>1, <3>2
  <2>3. CASE Disconnect \/ ReadEof \/ ReadError \/ UNCHANGED vars
    BY <2>3 DEF Disconnect, ReadEof, ReadError, vars, serviceVars, readerVars,
                Channel!channelVars
  <2>4. QED
    BY <1>2, <2>1, <2>2, <2>3 DEF Next, StartReading
<1>3. QED
  BY <1>1, <1>2, Invariance, PTL DEF Spec, ImplementsChannel, Channel!Spec
=============================================================================
