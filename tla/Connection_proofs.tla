-------------------------- MODULE Connection_proofs --------------------------
(***************************************************************************)
(* Proofs about Connection, for every set of calls.                        *)
(*                                                                         *)
(* The safety invariants are not inductive: they say nothing of the calls  *)
(* that have not yet got a reader.  The strengthening follows one call     *)
(* that no other overlaps from its click to the end of its reader: it      *)
(* alone is in hand (OneCall), so what it put into socket_ is still there  *)
(* (CallOwnsSocket), an event or a reader exists only for a call that      *)
(* succeeded (EmittedFirst), and its reader has in msg exactly what was    *)
(* taken from its handle (ReaderOwnsStream).                               *)
(***************************************************************************)
EXTENDS Connection, SequenceTheorems, TLAPS

EmittedFirst ==
    /\ \A i \in 1 .. Len(events) : call[events[i].of] = "connected"
    /\ \A c \in Calls : reader[c] # "none" => call[c] = "connected"

OneCall ==
    ~overlapped => \A c, d \in Calls : InHand(c) /\ InHand(d) => c = d

Live == {"connected", "eof", "reset"}

CallOwnsSocket ==
    ~overlapped =>
        \A c \in Calls :
            /\ call[c] = "open" => socket = NoSocket
            /\ call[c] \in {"connect", "connecting"} => socket = c /\ link[c] = "open"
            /\ call[c] = "connecting" => target[c] = c
            /\ call[c] \in {"linked", "started", "connected"} => socket = c /\ link[c] \in Live
            /\ call[c] \in {"started", "connected"} => started

ReaderOwnsStream ==
    ~overlapped =>
        \A c \in Calls :
            /\ reader[c] = "none" => taken[c] = 0
            /\ reader[c] = "reading" => source[c] = c
            /\ taken[c] # 1 => msg[c] = <<>>
            /\ taken[c] = 1 => msg[c] = <<Init1>>
            /\ taken[c] = 2 => c \in greeted

Inv ==
    /\ TypeOK
    /\ EmittedFirst
    /\ OneCall
    /\ CallOwnsSocket
    /\ ReaderOwnsStream
    /\ TerminationExplained

-----------------------------------------------------------------------------
\* Emit posts two events of its call after those that are there.
LEMMA EmitPosts ==
    ASSUME TypeOK, NEW c \in Calls
    PROVE  /\ events \o Posted(c) \in Seq(Event)
           /\ \A i \in 1 .. Len(events \o Posted(c)) :
                 \/ (events \o Posted(c))[i].of = c
                 \/ i \in 1 .. Len(events) /\ (events \o Posted(c))[i] = events[i]
<1>1. /\ Posted(c) \in Seq(Event)
      /\ Len(Posted(c)) = 2
      /\ \A i \in 1 .. 2 : Posted(c)[i].of = c
  BY DEF Posted, Event
<1>2. events \in Seq(Event) /\ Len(events) \in Nat
  BY DEF TypeOK
<1>3. PICK t : t = Posted(c)
  OBVIOUS
<1>4. /\ events \o t \in Seq(Event)
      /\ Len(events \o t) = Len(events) + Len(t)
      /\ \A i \in 1 .. Len(events) + Len(t) :
            (events \o t)[i] = IF i <= Len(events) THEN events[i] ELSE t[i - Len(events)]
  BY <1>1, <1>2, <1>3, ConcatProperties
<1>5. ASSUME NEW i \in 1 .. Len(events \o t)
      PROVE  \/ (events \o t)[i].of = c
             \/ i \in 1 .. Len(events) /\ (events \o t)[i] = events[i]
  <2>1. CASE i <= Len(events)
    BY <1>2, <1>4, <2>1
  <2>2. CASE i > Len(events)
    <3>1. Len(t) = 2 /\ i \in 1 .. Len(events) + Len(t) /\ ~(i <= Len(events))
      <4>1. Len(t) = 2
        BY <1>1, <1>3, Zenon
      <4>2. i \in 1 .. Len(events) + Len(t)
        BY <1>4, Zenon
      <4>3. ~(i <= Len(events))
        BY <1>2, <2>2, <4>1, <4>2
      <4>4. QED
        BY <4>1, <4>2, <4>3, Zenon
    <3>2. i - Len(events) \in 1 .. 2
      BY <1>2, <3>1
    <3>3. (events \o t)[i] = t[i - Len(events)]
      BY <1>4, <3>1, Zenon
    <3>4. QED
      BY <1>1, <1>3, <3>2, <3>3
  <2>3. i <= Len(events) \/ i > Len(events)
    BY <1>1, <1>2, <1>3, <1>4
  <2>4. QED
    BY <2>1, <2>2, <2>3
<1>6. QED
  BY <1>3, <1>4, <1>5

\* What is left of events after its head is taken.
LEMMA TakeEvent ==
    ASSUME TypeOK, events # <<>>
    PROVE  /\ Head(events) = events[1]
           /\ Head(events) \in Event
           /\ Head(events).of \in Calls
           /\ 1 \in 1 .. Len(events)
           /\ Tail(events) \in Seq(Event)
           /\ \A i \in 1 .. Len(Tail(events)) :
                 i + 1 \in 1 .. Len(events) /\ Tail(events)[i] = events[i + 1]
<1>1. events \in Seq(Event) /\ Len(events) \in Nat \ {0}
  BY EmptySeq DEF TypeOK
<1>2. /\ Head(events) \in Event
      /\ Tail(events) \in Seq(Event)
      /\ Len(Tail(events)) = Len(events) - 1
      /\ \A i \in 1 .. Len(Tail(events)) : Tail(events)[i] = events[i + 1]
  BY <1>1, HeadTailProperties
<1>3. Head(events) = events[1]
  BY <1>1
<1>4. Head(events).of \in Calls
  BY <1>2 DEF Event
<1>5. QED
  BY <1>1, <1>2, <1>3, <1>4

\* The service and the GUI are where they start.
LEMMA InitInv == Init => Inv
<1> SUFFICES ASSUME Init PROVE Inv
  OBVIOUS
<1>1. TypeOK
  <2>1. <<>> \in Seq(Event) /\ <<>> \in Seq({Init1, Init2})
    OBVIOUS
  <2>2. events \in Seq(Event) /\ msg \in [Calls -> Seq({Init1, Init2})]
    BY <2>1 DEF Init
  <2>3. /\ service \in {"up", "down"}
        /\ process \in {"running", "terminated"}
        /\ call \in [Calls -> CallStates]
        /\ target \in [Calls -> Handles]
        /\ socket \in Handles
        /\ link \in [Calls -> {"unused", "open", "connected", "eof", "reset", "closed"}]
    BY DEF Init, Handles, CallStates
  <2>4. /\ sent \in [Calls -> 0 .. 2]
        /\ taken \in [Calls -> 0 .. 2]
        /\ reader \in [Calls -> {"none", "ready", "reading", "returned"}]
        /\ source \in [Calls -> Handles]
    BY DEF Init, Handles
  <2>5. started \in BOOLEAN /\ button \in BOOLEAN /\ overlapped \in BOOLEAN /\ greeted \subseteq Calls
    BY DEF Init
  <2>6. QED
    BY <2>2, <2>3, <2>4, <2>5, Zenon DEF TypeOK
<1>2. EmittedFirst
  BY DEF Init, EmittedFirst
<1>3. OneCall
  BY DEF Init, OneCall, InHand
<1>4. CallOwnsSocket
  BY DEF Init, CallOwnsSocket
<1>5. ReaderOwnsStream
  <2>1. ASSUME NEW c \in Calls
        PROVE  reader[c] = "none" /\ taken[c] = 0 /\ msg[c] = <<>>
    BY DEF Init
  <2>2. ASSUME NEW c \in Calls
        PROVE  /\ reader[c] = "none" => taken[c] = 0
               /\ reader[c] = "reading" => source[c] = c
               /\ taken[c] # 1 => msg[c] = <<>>
               /\ taken[c] = 1 => msg[c] = <<Init1>>
               /\ taken[c] = 2 => c \in greeted
    <3>1. taken[c] # 1 /\ taken[c] # 2 /\ reader[c] # "reading"
      BY <2>1
    <3>2. QED
      BY <2>1, <3>1, Zenon
  <2>3. QED
    BY <2>2, Zenon DEF ReaderOwnsStream
<1>6. TerminationExplained
  BY DEF Init, TerminationExplained
<1>7. QED
  BY <1>1, <1>2, <1>3, <1>4, <1>5, <1>6 DEF Inv

\* Every step keeps every variable in its type.
LEMMA TypeOKStep == Inv /\ [Next]_vars => TypeOK'
<1> SUFFICES ASSUME Inv, [Next]_vars PROVE TypeOK'
  OBVIOUS
<1> USE CallsAssumption DEF Inv
<1>1. CASE StartService
  BY <1>1 DEF StartService, TypeOK, Handles, CallStates, socketVars, callVars, guiVars, readerVars
<1>2. CASE StopService
  BY <1>2 DEF StopService, TypeOK, Handles, CallStates, socketVars, callVars, guiVars, readerVars
<1>3. ASSUME NEW c \in Calls, Click(c) PROVE TypeOK'
  BY <1>3 DEF Click, TypeOK, Handles, CallStates, socketVars, callVars, guiVars, readerVars
<1>4. ASSUME NEW c \in Calls, CloseSocket(c) PROVE TypeOK'
  BY <1>4 DEF CloseSocket, TypeOK, Handles, CallStates, socketVars, callVars, guiVars, readerVars
<1>5. ASSUME NEW c \in Calls, OpenSocket(c) PROVE TypeOK'
  BY <1>5 DEF OpenSocket, TypeOK, Handles, CallStates, socketVars, callVars, guiVars, readerVars
<1>6. ASSUME NEW c \in Calls, BeginConnect(c) PROVE TypeOK'
  BY <1>6 DEF BeginConnect, TypeOK, Handles, CallStates, socketVars, callVars, guiVars, readerVars
<1>7. ASSUME NEW c \in Calls, ConnectOk(c) PROVE TypeOK'
  <2>1. target[c] \in Calls
    BY <1>7 DEF ConnectOk, CanConnect, TypeOK, Handles
  <2>2. QED
    BY <1>7, <2>1 DEF ConnectOk, TypeOK, Handles, CallStates, socketVars, callVars, guiVars, readerVars
<1>8. ASSUME NEW c \in Calls, ConnectFails(c) PROVE TypeOK'
  BY <1>8 DEF ConnectFails, TypeOK, Handles, CallStates, socketVars, callVars, guiVars, readerVars
<1>9. ASSUME NEW c \in Calls, SetStarted(c) PROVE TypeOK'
  BY <1>9 DEF SetStarted, TypeOK, Handles, CallStates, socketVars, callVars, guiVars, readerVars
<1>10. ASSUME NEW c \in Calls, Emit(c) PROVE TypeOK'
  <2>1. events' \in Seq(Event)
    BY <1>10, EmitPosts DEF Emit
  <2>2. QED
    BY <1>10, <2>1 DEF Emit, TypeOK, Handles, CallStates, socketVars, callVars, guiVars, readerVars
<1>11. CASE ShowTable
  <2>1. events' \in Seq(Event)
    BY <1>11, TakeEvent DEF ShowTable
  <2>2. QED
    BY <1>11, <2>1 DEF ShowTable, TypeOK, socketVars, callVars, guiVars, readerVars
<1>12. CASE StartReader
  <2>1. events' \in Seq(Event) /\ Head(events).of \in Calls
    BY <1>12, TakeEvent DEF StartReader
  <2>2. QED
    BY <1>12, <2>1 DEF StartReader, TypeOK, socketVars, callVars, guiVars, readerVars
<1>13. ASSUME NEW r \in Calls, BeginRead(r) PROVE TypeOK'
  BY <1>13 DEF BeginRead, TypeOK, Handles, CallStates, socketVars, callVars, guiVars, readerVars
<1>14. ASSUME NEW r \in Calls, ReadInit1(r) PROVE TypeOK'
  <2>1. source[r] \in Calls
    BY <1>14 DEF ReadInit1, Readable, TypeOK, Handles
  <2>2. Append(msg[r], Init1) \in Seq({Init1, Init2})
    BY DEF TypeOK
  <2>3. taken' \in [Calls -> 0 .. 2]
    BY <1>14, <2>1 DEF ReadInit1, TypeOK, Init1
  <2>4. msg' \in [Calls -> Seq({Init1, Init2})]
    BY <1>14, <2>2 DEF ReadInit1, TypeOK
  <2>5. QED
    BY <1>14, <2>3, <2>4 DEF ReadInit1, TypeOK, Handles, socketVars, callVars, guiVars, readerVars
<1>15. ASSUME NEW r \in Calls, ReadInit2(r) PROVE TypeOK'
  <2>1. source[r] \in Calls
    BY <1>15 DEF ReadInit2, Readable, TypeOK, Handles
  <2>2. <<>> \in Seq({Init1, Init2})
    OBVIOUS
  <2>3. taken' \in [Calls -> 0 .. 2]
    BY <1>15, <2>1 DEF ReadInit2, TypeOK, Init2
  <2>4. msg' \in [Calls -> Seq({Init1, Init2})]
    BY <1>15, <2>2 DEF ReadInit2, TypeOK
  <2>5. /\ greeted' \subseteq Calls
        /\ reader' \in [Calls -> {"none", "ready", "reading", "returned"}]
        /\ process' \in {"running", "terminated"}
    BY <1>15, <2>1 DEF ReadInit2, TypeOK
  <2>6. source' \in [Calls -> Handles]
    BY <1>15 DEF ReadInit2, TypeOK, Handles
  <2>7. UNCHANGED <<service, call, target, started, socket, link, sent, events, button, overlapped>>
    BY <1>15 DEF ReadInit2, callVars, guiVars
  <2>8. QED
    BY <2>3, <2>4, <2>5, <2>6, <2>7 DEF TypeOK
<1>16. ASSUME NEW r \in Calls, ReadEof(r) PROVE TypeOK'
  BY <1>16 DEF ReadEof, TypeOK, Handles, CallStates, socketVars, callVars, guiVars, readerVars
<1>17. ASSUME NEW r \in Calls, ReadError(r) PROVE TypeOK'
  BY <1>17 DEF ReadError, TypeOK, Handles, CallStates, socketVars, callVars, guiVars, readerVars
<1>18. CASE UNCHANGED vars
  BY <1>18 DEF vars, TypeOK, Handles, CallStates, socketVars, callVars, guiVars, readerVars
<1>19. QED
  BY <1>1, <1>2, <1>3, <1>4, <1>5, <1>6, <1>7, <1>8, <1>9, <1>10, <1>11, <1>12, <1>13, <1>14, <1>15, <1>16, <1>17, <1>18 DEF Next, Connector, Reader, Gui

\* A call is "connected" before its events are posted and for ever after.
LEMMA EmittedFirstStep == Inv /\ [Next]_vars => EmittedFirst'
<1> SUFFICES ASSUME Inv, [Next]_vars PROVE EmittedFirst'
  OBVIOUS
<1> USE DEF Inv
<1>1. ASSUME NEW c \in Calls, Click(c) PROVE EmittedFirst'
  BY <1>1 DEF Click, EmittedFirst, TypeOK, socketVars, callVars, guiVars, readerVars
<1>2. ASSUME NEW c \in Calls, CloseSocket(c) PROVE EmittedFirst'
  BY <1>2 DEF CloseSocket, EmittedFirst, TypeOK, socketVars, callVars, guiVars, readerVars
<1>3. ASSUME NEW c \in Calls, OpenSocket(c) PROVE EmittedFirst'
  BY <1>3 DEF OpenSocket, EmittedFirst, TypeOK, socketVars, callVars, guiVars, readerVars
<1>4. ASSUME NEW c \in Calls, BeginConnect(c) PROVE EmittedFirst'
  BY <1>4 DEF BeginConnect, EmittedFirst, TypeOK, socketVars, callVars, guiVars, readerVars
<1>5. ASSUME NEW c \in Calls, ConnectOk(c) PROVE EmittedFirst'
  BY <1>5 DEF ConnectOk, EmittedFirst, TypeOK, socketVars, callVars, guiVars, readerVars
<1>6. ASSUME NEW c \in Calls, ConnectFails(c) PROVE EmittedFirst'
  BY <1>6 DEF ConnectFails, EmittedFirst, TypeOK, socketVars, callVars, guiVars, readerVars
<1>7. ASSUME NEW c \in Calls, SetStarted(c) PROVE EmittedFirst'
  BY <1>7 DEF SetStarted, EmittedFirst, TypeOK, socketVars, callVars, guiVars, readerVars
<1>8. ASSUME NEW c \in Calls, Emit(c) PROVE EmittedFirst'
  <2>1. ASSUME NEW i \in 1 .. Len(events')
        PROVE  call'[events'[i].of] = "connected"
    <3>1. /\ events' = events \o Posted(c)
          /\ call' = [call EXCEPT ![c] = "connected"]
      BY <1>8 DEF Emit
    <3>2. CASE events'[i].of = c
      BY <3>1, <3>2 DEF TypeOK
    <3>3. CASE i \in 1 .. Len(events) /\ events'[i] = events[i]
      <4>1. events[i].of \in Calls /\ call[events[i].of] = "connected"
        <5>1. events[i] \in Event
          BY <3>3, ElementOfSeq DEF TypeOK
        <5>2. QED
          BY <3>3, <5>1 DEF EmittedFirst, Event
      <4>2. QED
        BY <3>1, <3>3, <4>1 DEF TypeOK
    <3>4. QED
      BY <3>1, <3>2, <3>3, EmitPosts
  <2>2. QED
    BY <1>8, <2>1 DEF Emit, EmittedFirst, TypeOK, socketVars, callVars, guiVars, readerVars
<1>9. CASE ShowTable
  <2>1. events' = Tail(events) /\ UNCHANGED <<call, reader>>
    BY <1>9 DEF ShowTable, callVars, readerVars
  <2>2. ASSUME NEW i \in 1 .. Len(events')
        PROVE  call'[events'[i].of] = "connected"
    BY <1>9, <2>1, TakeEvent DEF ShowTable, EmittedFirst
  <2>3. QED
    BY <2>1, <2>2 DEF EmittedFirst
<1>10. CASE StartReader
  <2>1. /\ events' = Tail(events)
        /\ reader' = [reader EXCEPT ![Head(events).of] = "ready"]
        /\ call' = call
    BY <1>10 DEF StartReader, callVars
  <2>2. call[Head(events).of] = "connected"
    BY <1>10, TakeEvent DEF StartReader, EmittedFirst
  <2>3. ASSUME NEW i \in 1 .. Len(events')
        PROVE  call'[events'[i].of] = "connected"
    BY <1>10, <2>1, TakeEvent DEF StartReader, EmittedFirst
  <2>4. ASSUME NEW d \in Calls, reader'[d] # "none"
        PROVE  call'[d] = "connected"
    BY <2>1, <2>2, <2>4 DEF EmittedFirst, TypeOK
  <2>5. QED
    BY <2>3, <2>4 DEF EmittedFirst
<1>11. ASSUME NEW r \in Calls, BeginRead(r) PROVE EmittedFirst'
  BY <1>11 DEF BeginRead, EmittedFirst, TypeOK, socketVars, callVars, guiVars, readerVars
<1>12. ASSUME NEW r \in Calls, ReadInit1(r) PROVE EmittedFirst'
  BY <1>12 DEF ReadInit1, EmittedFirst, TypeOK, socketVars, callVars, guiVars, readerVars
<1>13. ASSUME NEW r \in Calls, ReadInit2(r) PROVE EmittedFirst'
  BY <1>13 DEF ReadInit2, EmittedFirst, TypeOK, socketVars, callVars, guiVars, readerVars
<1>14. ASSUME NEW r \in Calls, ReadEof(r) PROVE EmittedFirst'
  BY <1>14 DEF ReadEof, EmittedFirst, TypeOK, socketVars, callVars, guiVars, readerVars
<1>15. CASE \/ StartService
           \/ StopService
           \/ (\E c \in Calls : ReadError(c))
           \/ UNCHANGED vars
  BY <1>15 DEF StartService, StopService, ReadError, vars, EmittedFirst, TypeOK, socketVars, callVars, guiVars, readerVars
<1>16. QED
  BY <1>1, <1>2, <1>3, <1>4, <1>5, <1>6, <1>7, <1>8, <1>9, <1>10, <1>11, <1>12, <1>13, <1>14, <1>15 DEF Next, Connector, Reader, Gui

\* A click while a call is in hand sets overlapped.
LEMMA OneCallStep == Inv /\ [Next]_vars => OneCall'
<1> SUFFICES ASSUME Inv, [Next]_vars PROVE OneCall'
  OBVIOUS
<1> USE DEF Inv
<1>1. ASSUME NEW c \in Calls, Click(c) PROVE OneCall'
  BY <1>1 DEF Click, OneCall, InHand, TypeOK, socketVars, callVars, guiVars, readerVars
<1>2. ASSUME NEW c \in Calls, CloseSocket(c) PROVE OneCall'
  BY <1>2 DEF CloseSocket, OneCall, InHand, TypeOK, socketVars, callVars, guiVars, readerVars
<1>3. ASSUME NEW c \in Calls, OpenSocket(c) PROVE OneCall'
  BY <1>3 DEF OpenSocket, OneCall, InHand, TypeOK, socketVars, callVars, guiVars, readerVars
<1>4. ASSUME NEW c \in Calls, BeginConnect(c) PROVE OneCall'
  BY <1>4 DEF BeginConnect, OneCall, InHand, TypeOK, socketVars, callVars, guiVars, readerVars
<1>5. ASSUME NEW c \in Calls, ConnectOk(c) PROVE OneCall'
  BY <1>5 DEF ConnectOk, OneCall, InHand, TypeOK, socketVars, callVars, guiVars, readerVars
<1>6. ASSUME NEW c \in Calls, ConnectFails(c) PROVE OneCall'
  BY <1>6 DEF ConnectFails, OneCall, InHand, TypeOK, socketVars, callVars, guiVars, readerVars
<1>7. ASSUME NEW c \in Calls, SetStarted(c) PROVE OneCall'
  BY <1>7 DEF SetStarted, OneCall, InHand, TypeOK, socketVars, callVars, guiVars, readerVars
<1>8. ASSUME NEW c \in Calls, Emit(c) PROVE OneCall'
  BY <1>8 DEF Emit, OneCall, InHand, TypeOK, socketVars, callVars, guiVars, readerVars
<1>9. CASE \/ StartService
           \/ StopService
           \/ ShowTable
           \/ StartReader
           \/ (\E c \in Calls : BeginRead(c))
           \/ (\E c \in Calls : ReadInit1(c))
           \/ (\E c \in Calls : ReadInit2(c))
           \/ (\E c \in Calls : ReadEof(c))
           \/ (\E c \in Calls : ReadError(c))
           \/ UNCHANGED vars
  BY <1>9 DEF StartService, StopService, ShowTable, StartReader, BeginRead, ReadInit1, ReadInit2, ReadEof, ReadError, vars, OneCall, InHand, TypeOK, socketVars, callVars, guiVars, readerVars
<1>10. QED
  BY <1>1, <1>2, <1>3, <1>4, <1>5, <1>6, <1>7, <1>8, <1>9 DEF Next, Connector, Reader, Gui

\* Only the call in hand writes socket_ and opens, connects or closes a handle.
LEMMA CallOwnsSocketStep == Inv /\ [Next]_vars => CallOwnsSocket'
<1> SUFFICES ASSUME Inv, [Next]_vars PROVE CallOwnsSocket'
  OBVIOUS
<1> USE CallsAssumption DEF Inv
<1>1. CASE StopService
  BY <1>1 DEF StopService, CallOwnsSocket, OneCall, InHand, TypeOK, Handles, Live, socketVars, callVars, guiVars, readerVars
<1>2. ASSUME NEW c \in Calls, Click(c) PROVE CallOwnsSocket'
  BY <1>2 DEF Click, CallOwnsSocket, OneCall, InHand, TypeOK, Handles, Live, socketVars, callVars, guiVars, readerVars
<1>3. ASSUME NEW c \in Calls, CloseSocket(c) PROVE CallOwnsSocket'
  BY <1>3 DEF CloseSocket, CallOwnsSocket, OneCall, InHand, TypeOK, Handles, Live, socketVars, callVars, guiVars, readerVars
<1>4. ASSUME NEW c \in Calls, OpenSocket(c) PROVE CallOwnsSocket'
  BY <1>4 DEF OpenSocket, CallOwnsSocket, OneCall, InHand, TypeOK, Handles, Live, socketVars, callVars, guiVars, readerVars
<1>5. ASSUME NEW c \in Calls, BeginConnect(c) PROVE CallOwnsSocket'
  BY <1>5 DEF BeginConnect, CallOwnsSocket, OneCall, InHand, TypeOK, Handles, Live, socketVars, callVars, guiVars, readerVars
<1>6. ASSUME NEW c \in Calls, ConnectOk(c) PROVE CallOwnsSocket'
  BY <1>6 DEF ConnectOk, CallOwnsSocket, OneCall, InHand, TypeOK, Handles, Live, socketVars, callVars, guiVars, readerVars
<1>7. ASSUME NEW c \in Calls, ConnectFails(c) PROVE CallOwnsSocket'
  BY <1>7 DEF ConnectFails, CallOwnsSocket, OneCall, InHand, TypeOK, Handles, Live, socketVars, callVars, guiVars, readerVars
<1>8. ASSUME NEW c \in Calls, SetStarted(c) PROVE CallOwnsSocket'
  BY <1>8 DEF SetStarted, CallOwnsSocket, OneCall, InHand, TypeOK, Handles, Live, socketVars, callVars, guiVars, readerVars
<1>9. ASSUME NEW c \in Calls, Emit(c) PROVE CallOwnsSocket'
  BY <1>9 DEF Emit, CallOwnsSocket, OneCall, InHand, TypeOK, Handles, Live, socketVars, callVars, guiVars, readerVars
<1>10. CASE \/ StartService
           \/ ShowTable
           \/ StartReader
           \/ (\E c \in Calls : BeginRead(c))
           \/ (\E c \in Calls : ReadInit1(c))
           \/ (\E c \in Calls : ReadInit2(c))
           \/ (\E c \in Calls : ReadEof(c))
           \/ (\E c \in Calls : ReadError(c))
           \/ UNCHANGED vars
  BY <1>10 DEF StartService, ShowTable, StartReader, BeginRead, ReadInit1, ReadInit2, ReadEof, ReadError, vars, CallOwnsSocket, OneCall, InHand, TypeOK, Handles, Live, socketVars, callVars, guiVars, readerVars
<1>11. QED
  BY <1>1, <1>2, <1>3, <1>4, <1>5, <1>6, <1>7, <1>8, <1>9, <1>10 DEF Next, Connector, Reader, Gui

\* A reader only takes from the handle of its own call.
LEMMA ReaderOwnsStreamStep == Inv /\ [Next]_vars => ReaderOwnsStream'
<1> SUFFICES ASSUME Inv, [Next]_vars PROVE ReaderOwnsStream'
  OBVIOUS
<1> USE CallsAssumption DEF Inv
<1>1. ASSUME NEW c \in Calls, Click(c) PROVE ReaderOwnsStream'
  BY <1>1 DEF Click, ReaderOwnsStream, CallOwnsSocket, EmittedFirst, TypeOK, socketVars, callVars, guiVars, readerVars
<1>2. CASE StartReader
  BY <1>2 DEF StartReader, ReaderOwnsStream, CallOwnsSocket, EmittedFirst, TypeOK, socketVars, callVars, guiVars, readerVars
<1>3. ASSUME NEW r \in Calls, BeginRead(r) PROVE ReaderOwnsStream'
  BY <1>3 DEF BeginRead, ReaderOwnsStream, CallOwnsSocket, EmittedFirst, TypeOK, socketVars, callVars, guiVars, readerVars
<1>4. ASSUME NEW r \in Calls, ReadInit1(r) PROVE ReaderOwnsStream'
  <2> SUFFICES ASSUME ~overlapped
               PROVE  ReaderOwnsStream'
    BY <1>4 DEF ReadInit1, ReaderOwnsStream
  <2>1. source[r] = r /\ taken[r] = 0 /\ msg[r] = <<>>
    BY <1>4 DEF ReadInit1, ReaderOwnsStream, TypeOK, Init1
  <2>2. Append(msg[r], Init1) = <<Init1>>
    BY <2>1
  <2>3. /\ taken' = [taken EXCEPT ![r] = 1]
        /\ msg' = [msg EXCEPT ![r] = <<Init1>>]
        /\ reader' = [reader EXCEPT ![r] = "ready"]
        /\ source' = [source EXCEPT ![r] = NoSocket]
        /\ UNCHANGED <<greeted, overlapped>>
    BY <1>4, <2>1, <2>2 DEF ReadInit1, Init1
  <2>4. QED
    BY <1>4, <2>3 DEF ReaderOwnsStream, TypeOK
<1>5. ASSUME NEW r \in Calls, ReadInit2(r) PROVE ReaderOwnsStream'
  <2> SUFFICES ASSUME ~overlapped
               PROVE  ReaderOwnsStream'
    BY <1>5 DEF ReadInit2, ReaderOwnsStream
  <2>1. source[r] = r /\ taken[r] = 1 /\ msg[r] = <<Init1>>
    <3>1. source[r] = r
      BY <1>5 DEF ReadInit2, ReaderOwnsStream
    <3>2. taken[r] = 1
      <4>1. taken[r] + 1 = 2
        BY <1>5, <3>1 DEF ReadInit2, Init2
      <4>2. taken[r] \in 0 .. 2
        BY DEF TypeOK
      <4>3. QED
        BY <4>1, <4>2
    <3>3. QED
      BY <3>1, <3>2 DEF ReaderOwnsStream
  <2>2. /\ taken' = [taken EXCEPT ![r] = 2]
        /\ msg' = [msg EXCEPT ![r] = <<>>]
        /\ reader' = [reader EXCEPT ![r] = "ready"]
        /\ source' = [source EXCEPT ![r] = NoSocket]
        /\ greeted' = greeted \cup {r}
        /\ UNCHANGED overlapped
    BY <1>5, <2>1 DEF ReadInit2, Init2
  <2>3. QED
    BY <1>5, <2>2 DEF ReaderOwnsStream, TypeOK
<1>6. ASSUME NEW r \in Calls, ReadEof(r) PROVE ReaderOwnsStream'
  BY <1>6 DEF ReadEof, ReaderOwnsStream, CallOwnsSocket, EmittedFirst, TypeOK, socketVars, callVars, guiVars, readerVars
<1>7. CASE \/ StartService
           \/ StopService
           \/ (\E c \in Calls : CloseSocket(c))
           \/ (\E c \in Calls : OpenSocket(c))
           \/ (\E c \in Calls : BeginConnect(c))
           \/ (\E c \in Calls : ConnectOk(c))
           \/ (\E c \in Calls : ConnectFails(c))
           \/ (\E c \in Calls : SetStarted(c))
           \/ (\E c \in Calls : Emit(c))
           \/ ShowTable
           \/ (\E c \in Calls : ReadError(c))
           \/ UNCHANGED vars
  BY <1>7 DEF StartService, StopService, CloseSocket, OpenSocket, BeginConnect, ConnectOk, ConnectFails, SetStarted, Emit, ShowTable, ReadError, vars, ReaderOwnsStream, CallOwnsSocket, EmittedFirst, TypeOK, socketVars, callVars, guiVars, readerVars
<1>8. QED
  BY <1>1, <1>2, <1>3, <1>4, <1>5, <1>6, <1>7 DEF Next, Connector, Reader, Gui

\* Alone on its stream a reader parses whole commands, and fails only on a reset.
LEMMA TerminationExplainedStep == Inv /\ [Next]_vars => TerminationExplained'
<1> SUFFICES ASSUME Inv, [Next]_vars PROVE TerminationExplained'
  OBVIOUS
<1> USE CallsAssumption DEF Inv
<1>1. CASE StopService
  BY <1>1 DEF StopService, TerminationExplained, TypeOK, socketVars, callVars, guiVars, readerVars
<1>2. ASSUME NEW c \in Calls, Click(c) PROVE TerminationExplained'
  BY <1>2 DEF Click, TerminationExplained, TypeOK, socketVars, callVars, guiVars, readerVars
<1>3. ASSUME NEW c \in Calls, CloseSocket(c) PROVE TerminationExplained'
  BY <1>3 DEF CloseSocket, TerminationExplained, TypeOK, socketVars, callVars, guiVars, readerVars
<1>4. ASSUME NEW c \in Calls, OpenSocket(c) PROVE TerminationExplained'
  BY <1>4 DEF OpenSocket, TerminationExplained, TypeOK, socketVars, callVars, guiVars, readerVars
<1>5. ASSUME NEW c \in Calls, ConnectOk(c) PROVE TerminationExplained'
  BY <1>5 DEF ConnectOk, TerminationExplained, TypeOK, socketVars, callVars, guiVars, readerVars
<1>6. ASSUME NEW r \in Calls, ReadInit2(r) PROVE TerminationExplained'
  <2>1. CASE overlapped
    BY <1>6, <2>1 DEF ReadInit2, TerminationExplained
  <2>2. CASE ~overlapped
    <3>1. source[r] = r /\ taken[r] = 1 /\ msg[r] = <<Init1>>
      <4>1. source[r] = r
        BY <1>6, <2>2 DEF ReadInit2, ReaderOwnsStream
      <4>2. taken[r] = 1
        <5>1. taken[r] + 1 = 2
          BY <1>6, <4>1 DEF ReadInit2, Init2
        <5>2. taken[r] \in 0 .. 2
          BY DEF TypeOK
        <5>3. QED
          BY <5>1, <5>2
      <4>3. QED
        BY <2>2, <4>1, <4>2 DEF ReaderOwnsStream
    <3>2. UNCHANGED <<process, link>>
      BY <1>6, <3>1 DEF ReadInit2
    <3>3. QED
      BY <1>6, <3>2 DEF ReadInit2, TerminationExplained
  <2>3. QED
    BY <2>1, <2>2
<1>7. ASSUME NEW r \in Calls, ReadError(r) PROVE TerminationExplained'
  <2>1. CASE overlapped
    BY <1>7, <2>1 DEF ReadError, TerminationExplained
  <2>2. CASE ~overlapped
    <3>1. source[r] = r /\ call[r] = "connected"
      BY <1>7, <2>2 DEF ReadError, ReaderOwnsStream, EmittedFirst
    <3>2. link[r] = "reset"
      BY <1>7, <2>2, <3>1 DEF ReadError, RecvFails, CallOwnsSocket, Live
    <3>3. QED
      BY <1>7, <3>2 DEF ReadError, TerminationExplained, socketVars
  <2>3. QED
    BY <2>1, <2>2
<1>8. CASE \/ StartService
           \/ (\E c \in Calls : BeginConnect(c))
           \/ (\E c \in Calls : ConnectFails(c))
           \/ (\E c \in Calls : SetStarted(c))
           \/ (\E c \in Calls : Emit(c))
           \/ ShowTable
           \/ StartReader
           \/ (\E c \in Calls : BeginRead(c))
           \/ (\E c \in Calls : ReadInit1(c))
           \/ (\E c \in Calls : ReadEof(c))
           \/ UNCHANGED vars
  BY <1>8 DEF StartService, BeginConnect, ConnectFails, SetStarted, Emit, ShowTable, StartReader, BeginRead, ReadInit1, ReadEof, vars, TerminationExplained, TypeOK, socketVars, callVars, guiVars, readerVars
<1>9. QED
  BY <1>1, <1>2, <1>3, <1>4, <1>5, <1>6, <1>7, <1>8 DEF Next, Connector, Reader, Gui

-----------------------------------------------------------------------------
\* The invariant is inductive.
THEOREM Invariance == Spec => []Inv
<1>1. Init => Inv
  BY InitInv
<1>2. Inv /\ [Next]_vars => Inv'
  BY TypeOKStep, EmittedFirstStep, OneCallStep, CallOwnsSocketStep,
     ReaderOwnsStreamStep, TerminationExplainedStep DEF Inv
<1>3. QED
  BY <1>1, <1>2, PTL DEF Spec

\* Every variable always has its type.
THEOREM TypeCorrect == Spec => []TypeOK
<1>1. Inv => TypeOK
  BY DEF Inv
<1>2. QED
  BY <1>1, Invariance, PTL

\* However many calls are made, the process dies of an exception in a reader
\* thread only after a reset by the service or after two calls overlapped.
THEOREM TerminationIsExplained == Spec => []TerminationExplained
<1>1. Inv => TerminationExplained
  BY DEF Inv
<1>2. QED
  BY <1>1, Invariance, PTL

\* Until two calls overlap there is one reader at most; it reads the handle in
\* socket_, which is connected, and started is set.
THEOREM OneReader == Spec => []ReaderOwnsSocket
<1>1. Inv => ReaderOwnsSocket
  BY DEF Inv, EmittedFirst, CallOwnsSocket, ReaderOwnsStream, ReaderOwnsSocket, Live
<1>2. QED
  BY <1>1, Invariance, PTL

\* Until two calls overlap an init that was read to its end was handled.
THEOREM NoInitLost == Spec => []InitNotLost
<1>1. Inv => InitNotLost
  BY DEF Inv, ReaderOwnsStream, InitNotLost
<1>2. QED
  BY <1>1, Invariance, PTL
=============================================================================
