-------------------------- MODULE TcpWriter_proofs --------------------------
(***************************************************************************)
(* Proofs about TcpWriter, for every set of names and number of commands.  *)
(*                                                                         *)
(* What was accepted is on the wire or pending.  The invariant says that   *)
(* the commands pending are those accepted after the ones on the wire      *)
(* (PendingIsRest), and that without haste there is one at most, whose     *)
(* text message_ still holds (OneAtATime).                                 *)
(***************************************************************************)
EXTENDS TcpWriter, SequenceTheorems, TLAPS

PendingIsRest ==
    /\ link # "down" =>
          /\ Len(accepted) = Len(wire) + Len(pending)
          /\ \A i \in 1 .. Len(pending) : pending[i].cmd = accepted[Len(wire) + i]
    /\ link # "up" => pending = <<>>

OneAtATime ==
    ~rushed =>
        /\ Len(pending) <= 1
        /\ \A i \in 1 .. Len(pending) : pending[i].held

Inv ==
    /\ TypeOK
    /\ PendingIsRest
    /\ OneAtATime
    /\ InOrder
    /\ IntactWhenPaced
    /\ OneResultEach

-----------------------------------------------------------------------------
\* Posted puts one send after those that are there and leaves their commands.
LEMMA PostedAppends ==
    ASSUME NEW s \in Seq(Send), NEW c \in Command
    PROVE  /\ Posted(s, c) \in Seq(Send)
           /\ Len(Posted(s, c)) = Len(s) + 1
           /\ \A i \in 1 .. Len(s) : Posted(s, c)[i].cmd = s[i].cmd
           /\ Posted(s, c)[Len(s) + 1] = [cmd |-> c, held |-> TRUE]
<1> DEFINE d == Dangling(s)
           e == [cmd |-> c, held |-> TRUE]
<1>1. Len(s) \in Nat /\ DOMAIN s = 1 .. Len(s)
  OBVIOUS
<1>2. ASSUME NEW i \in 1 .. Len(s)
      PROVE  d[i] \in Send /\ d[i].cmd = s[i].cmd
  <2>1. s[i] \in Send
    BY ElementOfSeq
  <2>2. d[i] = [s[i] EXCEPT !.held = FALSE]
    BY <1>1 DEF Dangling
  <2>3. QED
    BY <2>1, <2>2 DEF Send
<1>3. d = [i \in 1 .. Len(s) |-> d[i]]
  BY <1>1 DEF Dangling
<1>4. d \in Seq(Send) /\ Len(d) = Len(s)
  <2>1. d \in [1 .. Len(s) -> Send]
    BY <1>2, <1>3
  <2>2. QED
    BY <1>1, <2>1
<1>5. e \in Send
  BY DEF Send
<1>6. Posted(s, c) = Append(d, e)
  BY DEF Posted
<1> HIDE DEF d, e
<1>7. QED
  <2>1. /\ Append(d, e) \in Seq(Send)
        /\ Len(Append(d, e)) = Len(s) + 1
        /\ \A i \in 1 .. Len(s) : Append(d, e)[i] = d[i]
        /\ Append(d, e)[Len(s) + 1] = e
    BY <1>1, <1>4, <1>5
  <2>2. QED
    BY <1>2, <1>6, <2>1 DEF e

\* A command of a known kind and name.
LEMMA CommandTyped ==
    ASSUME NEW kind \in Kinds, NEW n \in Names
    PROVE  <<kind, n>> \in Command
BY DEF Command

LEMMA InitInv == Init => Inv
<1> SUFFICES ASSUME Init PROVE Inv
  OBVIOUS
<1>1. TypeOK
  <2>1. /\ pending \in Seq(Send)
        /\ wire \in Seq(Command \cup {Garbled})
        /\ accepted \in Seq(Command)
        /\ results \in Seq({"ok", "error"})
    BY DEF Init
  <2>2. asked \in 0 .. MaxCommands
    BY WriterAssumption DEF Init
  <2>3. /\ link \in {"none", "up", "down"}
        /\ message \in Command \cup {<<>>}
        /\ rushed \in BOOLEAN
    BY DEF Init
  <2>4. QED
    BY <2>1, <2>2, <2>3 DEF TypeOK
<1>2. PendingIsRest /\ OneAtATime
  BY DEF Init, PendingIsRest, OneAtATime
<1>3. InOrder /\ IntactWhenPaced /\ OneResultEach
  BY DEF Init, InOrder, IntactWhenPaced, OneResultEach
<1>4. QED
  BY <1>1, <1>2, <1>3 DEF Inv

-----------------------------------------------------------------------------
\* Connecting changes no sequence.
LEMMA ConnectInv == Inv /\ Connect => Inv'
<1> SUFFICES ASSUME Inv, Connect PROVE Inv'
  OBVIOUS
<1>1. /\ link = "none" /\ link' = "up"
      /\ UNCHANGED <<message, pending, wire, accepted, results, asked, rushed>>
  BY DEF Connect
<1>2. TypeOK'
  BY <1>1 DEF Inv, TypeOK
<1>3. PendingIsRest'
  BY <1>1 DEF Inv, PendingIsRest
<1>4. (OneAtATime /\ InOrder /\ IntactWhenPaced /\ OneResultEach)'
  BY <1>1 DEF Inv, OneAtATime, InOrder, IntactWhenPaced, OneResultEach
<1>5. QED
  BY <1>2, <1>3, <1>4 DEF Inv

\* What was pending gets its result at the end of the connection.
LEMMA DisconnectInv == Inv /\ Disconnect => Inv'
<1> SUFFICES ASSUME Inv, Disconnect PROVE Inv'
  OBVIOUS
<1> DEFINE errors == [i \in DOMAIN pending |-> "error"]
<1>1. /\ link' = "down"
      /\ pending' = <<>>
      /\ results' = results \o errors
      /\ UNCHANGED <<message, wire, accepted, asked, rushed>>
  BY DEF Disconnect
<1>2. /\ pending \in Seq(Send)
      /\ wire \in Seq(Command \cup {Garbled})
      /\ accepted \in Seq(Command)
      /\ results \in Seq({"ok", "error"})
      /\ asked \in Nat
  BY WriterAssumption DEF Inv, TypeOK
<1>3. errors \in Seq({"ok", "error"}) /\ Len(errors) = Len(pending)
  <2>1. DOMAIN pending = 1 .. Len(pending) /\ Len(pending) \in Nat
    BY <1>2
  <2>2. errors \in [1 .. Len(pending) -> {"ok", "error"}]
    BY <2>1
  <2>3. QED
    BY <2>1, <2>2
<1> HIDE DEF errors
<1>4. results' \in Seq({"ok", "error"}) /\ Len(results') = Len(results) + Len(pending)
  <2>1. /\ results \o errors \in Seq({"ok", "error"})
        /\ Len(results \o errors) = Len(results) + Len(errors)
    BY <1>2, <1>3, ConcatProperties
  <2>2. QED
    BY <1>1, <1>3, <2>1
<1>5. TypeOK'
  BY <1>1, <1>4 DEF Inv, TypeOK
<1>6. PendingIsRest' /\ OneAtATime'
  BY <1>1 DEF PendingIsRest, OneAtATime
<1>7. InOrder'
  BY <1>1, <1>2 DEF Inv, InOrder
<1>8. IntactWhenPaced'
  BY <1>1 DEF Inv, IntactWhenPaced
<1>9. OneResultEach'
  BY <1>1, <1>2, <1>4 DEF Inv, OneResultEach
<1>10. QED
  BY <1>5, <1>6, <1>7, <1>8, <1>9 DEF Inv

\* A command is accepted and pending, or has its result at once.
LEMMA NotifyInv ==
    ASSUME Inv, NEW kind \in Kinds, NEW n \in Names, Notify(kind, n)
    PROVE  Inv'
<1>1. PICK c \in Command : c = <<kind, n>>
  BY CommandTyped
<1>2. /\ pending \in Seq(Send)
      /\ wire \in Seq(Command \cup {Garbled})
      /\ accepted \in Seq(Command)
      /\ results \in Seq({"ok", "error"})
      /\ asked \in 0 .. MaxCommands
      /\ link \in {"none", "up", "down"}
      /\ MaxCommands \in Nat
  BY WriterAssumption DEF Inv, TypeOK
<1>3. /\ asked' = asked + 1
      /\ asked' \in 0 .. MaxCommands
      /\ message' = c
      /\ rushed' = (rushed \/ pending # <<>>)
      /\ UNCHANGED <<link, wire>>
  BY <1>1, <1>2 DEF Notify
<1>4. rushed' \in BOOLEAN
  BY <1>3
<1>5. CASE link = "up"
  <2>1. /\ pending' = Posted(pending, c)
        /\ accepted' = Append(accepted, c)
        /\ UNCHANGED results
    BY <1>1, <1>5 DEF Notify
  <2>2. /\ pending' \in Seq(Send)
        /\ Len(pending') = Len(pending) + 1
        /\ \A i \in 1 .. Len(pending) : pending'[i].cmd = pending[i].cmd
        /\ pending'[Len(pending) + 1] = [cmd |-> c, held |-> TRUE]
    BY <1>2, <2>1, PostedAppends
  <2>3. /\ accepted' \in Seq(Command)
        /\ Len(accepted') = Len(accepted) + 1
        /\ \A i \in 1 .. Len(accepted) : accepted'[i] = accepted[i]
        /\ accepted'[Len(accepted) + 1] = c
    BY <1>2, <2>1
  <2>4. /\ Len(accepted) = Len(wire) + Len(pending)
        /\ \A i \in 1 .. Len(pending) : pending[i].cmd = accepted[Len(wire) + i]
    BY <1>5 DEF Inv, PendingIsRest
  <2>5. /\ Len(wire) \in Nat /\ Len(pending) \in Nat /\ Len(accepted) \in Nat
        /\ DOMAIN wire = 1 .. Len(wire)
    BY <1>2
  <2>6. TypeOK'
    BY <1>3, <1>4, <2>1, <2>2, <2>3 DEF Inv, TypeOK
  <2>7. PendingIsRest'
    <3>1. Len(accepted') = Len(wire') + Len(pending')
      BY <1>3, <2>2, <2>3, <2>4, <2>5
    <3>2. ASSUME NEW i \in 1 .. Len(pending')
          PROVE  pending'[i].cmd = accepted'[Len(wire') + i]
      <4>1. CASE i \in 1 .. Len(pending)
        <5>1. Len(wire) + i \in 1 .. Len(accepted)
          BY <2>4, <2>5, <4>1
        <5>2. QED
          BY <1>3, <2>2, <2>3, <2>4, <4>1, <5>1
      <4>2. CASE i = Len(pending) + 1
        <5>1. Len(wire) + i = Len(accepted) + 1
          BY <2>4, <2>5, <4>2
        <5>2. pending'[i].cmd = c
          BY <2>2, <4>2
        <5>3. QED
          BY <1>3, <2>3, <5>1, <5>2
      <4>3. QED
        BY <2>2, <2>5, <4>1, <4>2
    <3>3. link' = "up"
      BY <1>3, <1>5
    <3>4. QED
      BY <3>1, <3>2, <3>3 DEF PendingIsRest
  <2>8. OneAtATime'
    <3>1. SUFFICES ASSUME ~rushed'
                   PROVE  /\ Len(pending') <= 1
                          /\ \A i \in 1 .. Len(pending') : pending'[i].held
      BY DEF OneAtATime
    <3>2. Len(pending) = 0
      <4>1. ~(rushed \/ pending # <<>>)
        BY <1>3, <3>1, Zenon
      <4>2. QED
        BY <4>1
    <3>3. Len(pending') = 1 /\ pending'[1].held
      BY <2>2, <3>2
    <3>4. QED
      BY <3>3
  <2>9. InOrder'
    <3>1. \A i \in 1 .. Len(wire) : i \in 1 .. Len(accepted)
      BY <2>4, <2>5
    <3>2. QED
      BY <1>3, <2>2, <2>3, <2>4, <2>5, <3>1 DEF Inv, InOrder
  <2>10. IntactWhenPaced'
    <3>1. \A i \in 1 .. Len(wire) : i \in 1 .. Len(accepted)
      BY <2>4, <2>5
    <3>2. rushed => rushed'
      BY <1>3
    <3>3. QED
      BY <1>3, <2>3, <2>5, <3>1, <3>2 DEF Inv, IntactWhenPaced
  <2>11. OneResultEach'
    <3>1. Len(results) + Len(pending) = asked /\ Len(results) \in Nat
      BY <1>2 DEF Inv, OneResultEach
    <3>2. Len(results') + Len(pending') = asked + 1
      BY <2>1, <2>2, <2>5, <3>1
    <3>3. QED
      BY <1>3, <3>2 DEF OneResultEach
  <2>12. QED
    BY <2>6, <2>7, <2>8, <2>9, <2>10, <2>11 DEF Inv
<1>6. CASE link # "up"
  <2>1. /\ results' = Append(results, "error")
        /\ UNCHANGED <<pending, accepted>>
    BY <1>6 DEF Notify
  <2>2. TypeOK'
    BY <1>2, <1>3, <1>4, <2>1 DEF Inv, TypeOK
  <2>3. PendingIsRest'
    BY <1>3, <2>1 DEF Inv, PendingIsRest
  <2>4. pending = <<>>
    BY <1>6 DEF Inv, PendingIsRest
  <2>5. OneAtATime'
    BY <2>1, <2>4 DEF OneAtATime
  <2>6. InOrder'
    BY <1>3, <2>1 DEF Inv, InOrder
  <2>7. IntactWhenPaced'
    BY <1>3, <2>1 DEF Inv, IntactWhenPaced
  <2>8. OneResultEach'
    BY <1>2, <1>3, <2>1 DEF Inv, OneResultEach
  <2>9. QED
    BY <2>2, <2>3, <2>5, <2>6, <2>7, <2>8 DEF Inv
<1>7. QED
  BY <1>5, <1>6

\* The oldest command pending is the next one accepted, and is sent whole when
\* message_ still holds it.
LEMMA TransmitInv == Inv /\ Transmit => Inv'
<1> SUFFICES ASSUME Inv, Transmit PROVE Inv'
  OBVIOUS
<1>1. /\ pending \in Seq(Send)
      /\ wire \in Seq(Command \cup {Garbled})
      /\ accepted \in Seq(Command)
      /\ results \in Seq({"ok", "error"})
      /\ asked \in Nat
      /\ pending # <<>>
  BY WriterAssumption DEF Inv, TypeOK, Transmit
<1>2. PICK c : /\ c \in {Head(pending).cmd} \cup (IF Head(pending).held THEN {} ELSE {Garbled})
               /\ wire' = Append(wire, c)
  BY DEF Transmit
<1>3. /\ pending' = Tail(pending)
      /\ results' = Append(results, "ok")
      /\ UNCHANGED <<link, message, accepted, asked, rushed>>
  BY DEF Transmit
<1>4. /\ Len(wire) \in Nat /\ Len(pending) \in Nat /\ Len(pending) > 0
      /\ DOMAIN wire = 1 .. Len(wire)
      /\ Head(pending) = pending[1]
      /\ pending[1] \in Send
  BY <1>1
<1>5. /\ pending' \in Seq(Send)
      /\ Len(pending') = Len(pending) - 1
      /\ \A i \in 1 .. Len(pending') : pending'[i] = pending[i + 1]
  BY <1>1, <1>3
<1>6. c \in Command \cup {Garbled}
  BY <1>2, <1>4 DEF Send
<1>7. /\ wire' \in Seq(Command \cup {Garbled})
      /\ Len(wire') = Len(wire) + 1
      /\ DOMAIN wire' = 1 .. Len(wire) + 1
      /\ \A i \in 1 .. Len(wire) : wire'[i] = wire[i]
      /\ wire'[Len(wire) + 1] = c
  BY <1>1, <1>2, <1>6
<1>8. link = "up"
  BY <1>1 DEF Inv, PendingIsRest
<1>9. /\ Len(accepted) = Len(wire) + Len(pending)
      /\ \A i \in 1 .. Len(pending) : pending[i].cmd = accepted[Len(wire) + i]
  BY <1>8 DEF Inv, PendingIsRest
<1>10. Head(pending).cmd = accepted[Len(wire) + 1]
  BY <1>4, <1>9
<1>11. TypeOK'
  BY <1>1, <1>3, <1>5, <1>7 DEF Inv, TypeOK
<1>12. PendingIsRest'
  <2>1. Len(accepted') = Len(wire') + Len(pending')
    BY <1>3, <1>4, <1>5, <1>7, <1>9
  <2>2. ASSUME NEW i \in 1 .. Len(pending')
        PROVE  pending'[i].cmd = accepted'[Len(wire') + i]
    <3>1. PICK j \in 1 .. Len(pending) : j = i + 1
      BY <1>4, <1>5
    <3>2. pending'[i] = pending[j] /\ pending[j].cmd = accepted[Len(wire) + j]
      BY <1>5, <1>9, <3>1
    <3>3. Len(wire') + i = Len(wire) + j
      BY <1>4, <1>7, <3>1
    <3>4. QED
      BY <1>3, <3>2, <3>3
  <2>3. QED
    BY <1>3, <1>8, <2>1, <2>2 DEF PendingIsRest
<1>13. OneAtATime'
  BY <1>3, <1>4, <1>5 DEF Inv, OneAtATime
<1>14. InOrder'
  <2>1. c \in {accepted[Len(wire) + 1], Garbled}
    BY <1>2, <1>10
  <2>2. \A i \in 1 .. Len(wire) : wire[i] \in {accepted[i], Garbled}
    BY <1>4 DEF Inv, InOrder
  <2>3. ASSUME NEW i \in DOMAIN wire'
        PROVE  wire'[i] \in {accepted'[i], Garbled}
    BY <1>3, <1>4, <1>7, <2>1, <2>2
  <2>4. Len(wire') + Len(pending') <= Len(accepted')
    BY <1>3, <1>4, <1>5, <1>7, <1>9
  <2>5. QED
    BY <2>3, <2>4 DEF InOrder
<1>15. IntactWhenPaced'
  <2> SUFFICES ASSUME ~rushed', NEW i \in DOMAIN wire'
               PROVE  wire'[i] = accepted'[i]
    BY DEF IntactWhenPaced
  <2>1. ~rushed
    BY <1>3
  <2>2. Head(pending).held
    BY <1>4, <2>1 DEF Inv, OneAtATime
  <2>3. c = accepted[Len(wire) + 1]
    BY <1>2, <1>10, <2>2
  <2>4. \A k \in 1 .. Len(wire) : wire[k] = accepted[k]
    BY <1>4, <2>1 DEF Inv, IntactWhenPaced
  <2>5. QED
    BY <1>3, <1>4, <1>7, <2>3, <2>4
<1>16. OneResultEach'
  <2>1. Len(results) + Len(pending) = asked /\ Len(results) \in Nat
    BY <1>1 DEF Inv, OneResultEach
  <2>2. Len(results') = Len(results) + 1
    BY <1>1, <1>3
  <2>3. QED
    BY <1>3, <1>4, <1>5, <2>1, <2>2 DEF OneResultEach
<1>17. QED
  BY <1>11, <1>12, <1>13, <1>14, <1>15, <1>16 DEF Inv

LEMMA StepInv == Inv /\ [Next]_vars => Inv'
<1> SUFFICES ASSUME Inv, [Next]_vars PROVE Inv'
  OBVIOUS
<1>1. CASE Connect
  BY <1>1, ConnectInv
<1>2. CASE Disconnect
  BY <1>2, DisconnectInv
<1>3. ASSUME NEW kind \in Kinds, NEW n \in Names, Notify(kind, n)
      PROVE  Inv'
  BY <1>3, NotifyInv
<1>4. CASE Transmit
  BY <1>4, TransmitInv
<1>5. CASE UNCHANGED vars
  BY <1>5 DEF vars, Inv, TypeOK, PendingIsRest, OneAtATime, InOrder, IntactWhenPaced, OneResultEach
<1>6. QED
  BY <1>1, <1>2, <1>3, <1>4, <1>5 DEF Next

\* The inductive invariant holds in every behaviour of the writer.
THEOREM Invariance == Spec => []Inv
BY InitInv, StepInv, PTL DEF Spec

-----------------------------------------------------------------------------
\* Every variable of the writer always has its type.
THEOREM TypeCorrect == Spec => []TypeOK
<1>1. Inv => TypeOK
  BY DEF Inv
<1>2. QED
  BY <1>1, Invariance, PTL

\* The service gets the commands accepted, in their order, none twice and none
\* left out, though the text of one may be lost.
THEOREM SentInOrder == Spec => []InOrder
<1>1. Inv => InOrder
  BY DEF Inv
<1>2. QED
  BY <1>1, Invariance, PTL

\* Nothing is lost as long as no command is asked for while a send is pending.
THEOREM PacedIsIntact == Spec => []IntactWhenPaced
<1>1. Inv => IntactWhenPaced
  BY DEF Inv
<1>2. QED
  BY <1>1, Invariance, PTL

\* Every command asked for has exactly one result, or a send that will have it.
THEOREM OneResult == Spec => []OneResultEach
<1>1. Inv => OneResultEach
  BY DEF Inv
<1>2. QED
  BY <1>1, Invariance, PTL
=============================================================================
