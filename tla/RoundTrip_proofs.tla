-------------------------- MODULE RoundTrip_proofs --------------------------
(***************************************************************************)
(* Proofs about RoundTrip, for every set of names and number of commands.  *)
(*                                                                         *)
(* A step of the round trip is a step of ClientLifetime, and so of         *)
(* TcpWriter: what is proved there holds here.  As long as nothing crosses *)
(* at most one thing is in flight - a request, an answer, a report or an   *)
(* event (OneInFlight) - so that a read brings one command and leaves none *)
(* behind.                                                                 *)
(*                                                                         *)
(* Whoever is ahead of whom, what is on its way to the user is one line    *)
(* (Line), whichever queue each part of it is in: the service lengthens    *)
(* it, the reader leaves it as it is, the GUI thread takes the first of    *)
(* it.  The refusals not shown yet are on it, in order (TellInv), and for  *)
(* each name the last thing that puts its row there or takes it decides    *)
(* (SeenInv).                                                              *)
(*                                                                         *)
(* For a user who waits for his answers there is at most one of a request, *)
(* a refusal he has not seen, and an open error window (OneMatter): when   *)
(* he asks, only reports are on the line, which change no row, so that     *)
(* what he clicks on is a task or a row of the QML file.                   *)
(***************************************************************************)
EXTENDS RoundTrip, ClientLifetime_proofs, SequenceTheorems

Sum(p, w, s, u, b, q) == p + (w - s) + u + b + q
InFlight == Sum(Len(pending), Len(wire), served, Len(unread), Len(backlog), Len(queue))

\* Before there is a connection nothing is on its way; sends are pending on one only.
FreshLink ==
    /\ link # "up" => pending = <<>>
    /\ link = "none" => Quiet

OneInFlight == ~crossed => InFlight <= 1 /\ backlog = <<>>

RoundInv ==
    /\ LifeInv
    /\ RoundTypeOK
    /\ FreshLink
    /\ OneInFlight

-----------------------------------------------------------------------------
LEMMA RoundStepIsLifeStep == [RoundNext]_roundVars => [LifeNext]_allVars
<1> SUFFICES ASSUME [RoundNext]_roundVars PROVE [LifeNext]_allVars
  OBVIOUS
<1>1. CASE Live \/ Begin \/ Exit \/ Leave \/ Arrive
  BY <1>1 DEF Live, Begin, Exit, Leave, Arrive, LifeNext
<1>2. CASE Greet
  BY <1>2 DEF Greet, LifeNext
<1>3. CASE Serve
  BY <1>3 DEF Serve, AddTask, RemoveTask, Refuse, Ignore, Take
<1>4. CASE (\E n \in Names : ReportProgress(n)) \/ StartReading \/ Gui \/ Accept
  BY <1>4 DEF ReportProgress, StartReading, ReadSome, Gui, TableEvent, ErrorThrown, Accept
<1>5. ASSUME NEW kind \in Kinds, NEW n \in Names, Ask(kind, n)
      PROVE  [LifeNext]_allVars
  BY <1>5 DEF Ask, LifeNext
<1>6. CASE UNCHANGED roundVars
  BY <1>6 DEF roundVars
<1>7. QED
  BY <1>1, <1>2, <1>3, <1>4, <1>5, <1>6 DEF RoundNext

\* The round trip, seen from the process alone, is the life of a client.
THEOREM RoundImplementsLife == RoundSpec => LifeSpec
<1>1. RoundInit => LifeInit
  BY DEF RoundInit
<1>2. QED
  BY <1>1, RoundStepIsLifeStep, PTL DEF RoundSpec, LifeSpec

-----------------------------------------------------------------------------
LEMMA Typed ==
    ASSUME RoundInv
    PROVE  /\ pending \in Seq(Send) /\ Len(pending) \in Nat
           /\ wire \in Seq(Command \cup {Garbled}) /\ Len(wire) \in Nat
           /\ accepted \in Seq(Command) /\ Len(accepted) \in Nat
           /\ served \in 0 .. Len(wire)
           /\ unread \in Seq(Replies) /\ Len(unread) \in Nat
           /\ backlog \in Seq(Replies) /\ Len(backlog) \in Nat
           /\ queue \in Seq(Events) /\ Len(queue) \in Nat
BY DEF RoundInv, LifeInv, Inv, TypeOK, RoundTypeOK

\* The numbers of things in flight are numbers.
LEMMA Counted ==
    ASSUME RoundInv
    PROVE  /\ Len(pending) \in Nat /\ Len(wire) \in Nat /\ served \in Nat /\ served <= Len(wire)
           /\ Len(unread) \in Nat /\ Len(backlog) \in Nat /\ Len(queue) \in Nat
           /\ Len(accepted) \in Nat
BY Typed

\* Where there is one thing there is no other.
LEMMA PacedOne ==
    ASSUME RoundInv, ~crossed
    PROVE  /\ InFlight <= 1
           /\ backlog = <<>>
           /\ Len(unread) >= 1 =>
                 Len(unread) = 1 /\ Len(pending) = 0 /\ Len(wire) = served /\ Len(queue) = 0
           /\ Len(queue) >= 1 =>
                 Len(queue) = 1 /\ Len(pending) = 0 /\ Len(wire) = served /\ Len(unread) = 0
<1>1. InFlight <= 1 /\ backlog = <<>>
  BY DEF RoundInv, OneInFlight
<1>2. Len(pending) + (Len(wire) - served) + Len(unread) + Len(backlog) + Len(queue) <= 1
  BY <1>1 DEF InFlight, Sum
<1> DEFINE p == Len(pending)
           w == Len(wire)
           u == Len(unread)
           b == Len(backlog)
           q == Len(queue)
<1>3. /\ p \in Nat /\ w \in Nat /\ served \in Nat /\ served <= w
      /\ u \in Nat /\ b \in Nat /\ q \in Nat
  BY Counted
<1>4. p + (w - served) + u + b + q <= 1
  BY <1>2
<1> HIDE DEF p, w, u, b, q
<1>5. /\ u >= 1 => u = 1 /\ p = 0 /\ w = served /\ q = 0
      /\ q >= 1 => q = 1 /\ p = 0 /\ w = served /\ u = 0
  BY <1>3, <1>4
<1>6. QED
  BY <1>1, <1>5 DEF p, w, u, b, q

\* One request, one answer or one event is one thing.
LEMMA OneThing ==
    ASSUME NEW s \in Nat
    PROVE  /\ Sum(0, s, s, 0, 0, 0) <= 1
           /\ Sum(1, s, s, 0, 0, 0) <= 1
           /\ Sum(0, s, s, 1, 0, 0) <= 1
           /\ Sum(0, s, s, 0, 0, 1) <= 1
BY DEF Sum

LEMMA InitRoundInv == RoundInit => RoundInv
<1> SUFFICES ASSUME RoundInit PROVE RoundInv
  OBVIOUS
<1>1. LifeInv
  BY InitLifeInv DEF RoundInit
<1>2. /\ link = "none" /\ pending = <<>> /\ wire = <<>> /\ accepted = <<>>
      /\ tasks \in SUBSET Names /\ served = 0 /\ unread = <<>> /\ backlog = <<>>
      /\ queue = <<>> /\ shown = Placeholders /\ modal = FALSE /\ reports = 0
      /\ hasty = FALSE /\ crossed = FALSE
      /\ removed = {} /\ refused = <<>> /\ told = <<>> /\ replaced = FALSE
  BY DEF RoundInit, LifeInit, Init
<1>3. RoundTypeOK
  <2>1. TypeOK /\ LifeTypeOK
    BY <1>1 DEF LifeInv, Inv
  <2>2. served \in 0 .. Len(wire)
    BY <1>2
  <2>3. tasks \subseteq Names /\ shown \subseteq Names /\ removed \subseteq Names
    BY <1>2, RoundAssumption
  <2>4. modal \in BOOLEAN /\ hasty \in BOOLEAN /\ crossed \in BOOLEAN /\ replaced \in BOOLEAN
    BY <1>2
  <2>5. reports \in 0 .. MaxReports
    BY <1>2, RoundAssumption
  <2>6. /\ unread \in Seq(Replies) /\ backlog \in Seq(Replies) /\ queue \in Seq(Events)
        /\ refused \in Seq(SUBSET Names) /\ told \in Seq(SUBSET Names)
    BY <1>2, EmptySeq
  <2>7. QED
    BY <2>1, <2>2, <2>3, <2>4, <2>5, <2>6 DEF RoundTypeOK
<1>4. FreshLink /\ OneInFlight
  BY <1>2 DEF FreshLink, Quiet, OneInFlight, InFlight, Sum
<1>5. QED
  BY <1>1, <1>3, <1>4 DEF RoundInv

-----------------------------------------------------------------------------
\* What a step of the process may do to the sends when no command is asked for.
Onward ==
    /\ accepted' = accepted
    /\ Len(wire') \in Nat /\ Len(pending') \in Nat
    /\ Len(wire') >= Len(wire)
    /\ Len(wire') + Len(pending') <= Len(wire) + Len(pending)
    /\ link' = link \/ (link' = "down" /\ link = "up")
    /\ link' # "up" => pending' = <<>>
    /\ link # "up" => UNCHANGED <<pending, wire>>

LEMMA SendsGoOn ==
    ASSUME RoundInv, Transmit \/ Disconnect \/ UNCHANGED vars
    PROVE  Onward
<1>1. CASE Transmit
  <2>1. link = "up" /\ link' = link
    BY <1>1 DEF Transmit, RoundInv, FreshLink
  <2>2. Len(pending') = Len(pending) - 1 /\ Len(pending') \in Nat
    BY <1>1, Typed, HeadTailProperties DEF Transmit
  <2>3. PICK c \in Command \cup {Garbled} : wire' = Append(wire, c)
    <3>1. Head(pending) \in Send
      BY <1>1, Typed, HeadTailProperties DEF Transmit
    <3>2. QED
      BY <1>1, <3>1 DEF Transmit, Send
  <2>4. Len(wire') = Len(wire) + 1
    BY <2>3, Typed
  <2>5. QED
    BY <1>1, <2>1, <2>2, <2>4, Typed DEF Transmit, Onward
<1>2. CASE Disconnect
  BY <1>2, Typed DEF Disconnect, Onward
<1>3. CASE UNCHANGED vars
  <2>1. UNCHANGED <<link, pending, wire, accepted>>
    BY <1>3 DEF vars
  <2>2. link # "up" => pending = <<>>
    BY DEF RoundInv, FreshLink
  <2>3. Len(wire') = Len(wire) /\ Len(pending') = Len(pending)
    BY <2>1
  <2>4. /\ Len(wire') \in Nat /\ Len(pending') \in Nat /\ Len(wire') >= Len(wire)
        /\ Len(wire') + Len(pending') <= Len(wire) + Len(pending)
    BY <2>3, Counted
  <2>5. link' # "up" => pending' = <<>>
    BY <2>1, <2>2
  <2>6. QED
    BY <2>1, <2>4, <2>5 DEF Onward
<1>4. QED
  BY <1>1, <1>2, <1>3

\* Such a step keeps the round trip going.
LEMMA OnwardInv ==
    ASSUME RoundInv, LifeInv', Onward, UNCHANGED tripVars
    PROVE  RoundInv'
<1>1. UNCHANGED <<tasks, served, removed, refused, unread, backlog, queue, shown, modal, told,
                  replaced, reports, hasty, crossed>>
  BY DEF tripVars, serviceVars, guiVars, paceVars
<1>2. RoundTypeOK'
  <2>1. served' \in 0 .. Len(wire')
    BY <1>1, Typed DEF Onward
  <2>2. TypeOK' /\ LifeTypeOK'
    BY DEF LifeInv, Inv
  <2>3. QED
    BY <1>1, <2>1, <2>2 DEF RoundInv, RoundTypeOK
<1>3. FreshLink'
  BY <1>1 DEF RoundInv, FreshLink, Quiet, Onward
<1>4. OneInFlight'
  BY <1>1, Typed DEF RoundInv, OneInFlight, InFlight, Sum, Onward
<1>5. QED
  BY <1>2, <1>3, <1>4 DEF RoundInv

LEMMA ProcessInv ==
    ASSUME RoundInv, LifeInv', Live \/ Begin \/ Exit \/ Leave \/ Arrive \/ UNCHANGED roundVars
    PROVE  RoundInv'
<1>1. UNCHANGED tripVars
  BY DEF Live, Begin, Exit, Leave, Arrive, roundVars
<1>2. Transmit \/ Disconnect \/ UNCHANGED vars
  BY DEF Live, Begin, Exit, Leave, Arrive, roundVars, allVars, StartUp, StartReader, Quit,
         ReaderReturns, ReaderThrows, DestroyInstance, ExitProcess, ServiceLeaves,
         SendCompletes, LinkCloses
<1>3. QED
  BY <1>1, <1>2, SendsGoOn, OnwardInv

LEMMA GreetInv ==
    ASSUME RoundInv, LifeInv', Greet
    PROVE  RoundInv'
<1>1. /\ link = "none" /\ link' = "up"
      /\ UNCHANGED <<pending, wire, accepted>>
      /\ unread' = <<Reply("init", tasks)>>
      /\ UNCHANGED <<tasks, served, removed, refused, backlog, queue, shown, modal, told, replaced,
                     reports, hasty, crossed>>
  BY DEF Greet, ClientConnects, Connect, serviceVars, guiVars, paceVars
<1>2. Quiet
  BY <1>1 DEF RoundInv, FreshLink
<1>3. Reply("init", tasks) \in Replies
  BY DEF Reply, Replies, RoundInv, RoundTypeOK
<1>4. RoundTypeOK'
  <2>1. TypeOK' /\ LifeTypeOK'
    BY DEF LifeInv, Inv
  <2>2. QED
    BY <1>1, <1>3, <2>1 DEF RoundInv, RoundTypeOK
<1>5. FreshLink'
  BY <1>1 DEF FreshLink
<1>6. OneInFlight'
  BY <1>1, <1>2, Typed DEF OneInFlight, InFlight, Sum, Quiet
<1>7. QED
  BY <1>4, <1>5, <1>6 DEF RoundInv

-----------------------------------------------------------------------------
\* As long as nothing crosses, the command the service takes is all that is in flight.
LEMMA TakenIsAll ==
    ASSUME RoundInv, Take
    PROVE  /\ UNCHANGED <<link, pending, wire, accepted, backlog, queue, shown, modal, told, replaced,
                          reports, hasty, crossed>>
           /\ link = "up"
           /\ served' = served + 1 /\ served' \in 0 .. Len(wire)
           /\ ~crossed => /\ Len(pending) = 0 /\ Len(unread) = 0 /\ Len(backlog) = 0
                          /\ Len(queue) = 0 /\ Len(wire) = served + 1
<1>1. /\ UNCHANGED <<link, pending, wire, accepted, backlog, queue, shown, modal, told, replaced,
                     reports, hasty, crossed>>
      /\ link = "up"
      /\ served' = served + 1 /\ served < Len(wire)
  BY DEF Take, allVars, vars, guiVars, paceVars
<1>2. served' \in 0 .. Len(wire)
  BY <1>1, Typed
<1>3. ASSUME ~crossed
      PROVE  /\ Len(pending) = 0 /\ Len(unread) = 0 /\ Len(backlog) = 0 /\ Len(queue) = 0
             /\ Len(wire) = served + 1
  BY <1>1, <1>3, Typed DEF RoundInv, OneInFlight, InFlight, Sum
<1>4. QED
  BY <1>1, <1>2, <1>3

\* What the service does with a command, and the one answer it may give.
LEMMA ServedInv ==
    ASSUME RoundInv, LifeInv', Take,
           tasks' \subseteq Names, removed' \subseteq Names, refused' \in Seq(SUBSET Names),
           UNCHANGED unread \/ \E a \in Replies : unread' = Append(unread, a)
    PROVE  RoundInv'
<1>1. /\ UNCHANGED <<link, pending, wire, accepted, backlog, queue, shown, modal, told, replaced,
                     reports, hasty, crossed>>
      /\ link = "up" /\ served' = served + 1 /\ served' \in 0 .. Len(wire)
  BY TakenIsAll
<1>2. unread' \in Seq(Replies) /\ Len(unread') <= Len(unread) + 1 /\ Len(unread') \in Nat
  <2>1. CASE UNCHANGED unread
    BY <2>1, Typed
  <2>2. ASSUME NEW a \in Replies, unread' = Append(unread, a)
        PROVE  unread' \in Seq(Replies) /\ Len(unread') = Len(unread) + 1
    BY <2>2, Typed
  <2>3. QED
    BY <2>1, <2>2, Counted
<1>3. RoundTypeOK'
  <2>1. TypeOK' /\ LifeTypeOK'
    BY DEF LifeInv, Inv
  <2>2. QED
    BY <1>1, <1>2, <2>1 DEF RoundInv, RoundTypeOK
<1>4. FreshLink'
  BY <1>1 DEF FreshLink
<1>5. OneInFlight'
  <2> SUFFICES ASSUME ~crossed PROVE InFlight' <= 1 /\ backlog' = <<>>
    BY <1>1 DEF OneInFlight
  <2>1. backlog = <<>>
    BY PacedOne
  <2>2. /\ Len(pending') = 0 /\ Len(wire') = served' /\ Len(unread) = 0 /\ Len(backlog') = 0
        /\ Len(queue') = 0
    BY <1>1, TakenIsAll
  <2>3. Len(unread') = 0 \/ Len(unread') = 1
    BY <1>2, <2>2
  <2>4. InFlight' <= 1
    <3>1. served' \in Nat
      BY <1>1
    <3>2. QED
      BY <2>2, <2>3, <3>1, OneThing DEF InFlight
  <2>5. QED
    BY <1>1, <2>1, <2>4
<1>6. QED
  BY <1>3, <1>4, <1>5 DEF RoundInv

LEMMA ServeInv ==
    ASSUME RoundInv, LifeInv', Serve
    PROVE  RoundInv'
<1>1. tasks \subseteq Names /\ removed \subseteq Names /\ refused \in Seq(SUBSET Names)
  BY DEF RoundInv, RoundTypeOK
<1>2. ASSUME NEW n \in Names, AddTask(n)
      PROVE  RoundInv'
  <2>1. Reply("add", {n}) \in Replies
    BY DEF Reply, Replies
  <2>2. QED
    BY <1>1, <1>2, <2>1, ServedInv DEF AddTask, Answer, Reply
<1>3. ASSUME NEW n \in Names, RemoveTask(n)
      PROVE  RoundInv'
  <2>1. Reply("remove", {n}) \in Replies
    BY DEF Reply, Replies
  <2>2. /\ tasks' = tasks \ {n} /\ Take /\ removed' = removed \cup {n} /\ refused' = refused
        /\ unread' = Append(unread, Reply("remove", {n}))
    BY <1>3 DEF RemoveTask, Answer
  <2>3. Reply("remove", {n}).what = "remove"
    BY DEF Reply
  <2>4. QED
    BY <1>1, <2>1, <2>2, <2>3, ServedInv
<1>4. CASE Refuse
  <2> DEFINE names == IF Requested = Garbled THEN {} ELSE {Requested[2]}
  <2>1. /\ Take /\ UNCHANGED <<tasks, removed>>
        /\ unread' = Append(unread, Reply("-1", names))
        /\ refused' = Append(refused, names)
    BY <1>4 DEF Refuse, Answer
  <2>2. names \subseteq Names
    <3>1. served + 1 \in 1 .. Len(wire)
      BY <2>1, Typed DEF Take
    <3>2. Requested \in Command \cup {Garbled}
      BY <3>1, Typed, ElementOfSeq DEF Requested
    <3>3. QED
      BY <3>2 DEF Command
  <2>3. Reply("-1", names) \in Replies /\ Reply("-1", names).what = "-1"
    BY <2>2 DEF Reply, Replies
  <2> HIDE DEF names
  <2>4. refused' \in Seq(SUBSET Names)
    BY <1>1, <2>1, <2>2
  <2>5. QED
    BY <1>1, <2>1, <2>3, <2>4, ServedInv
<1>5. CASE Ignore
  BY <1>1, <1>5, ServedInv DEF Ignore
<1>6. QED
  BY <1>2, <1>3, <1>4, <1>5 DEF Serve

\* A report that nothing crosses is the one thing in flight.
LEMMA ReportInv ==
    ASSUME RoundInv, LifeInv', NEW n \in Names, ReportProgress(n)
    PROVE  RoundInv'
<1>1. /\ link = "up" /\ reports < MaxReports /\ reports' = reports + 1
      /\ crossed' = (crossed \/ ~Quiet)
      /\ unread' = Append(unread, Reply("progress", {n}))
      /\ UNCHANGED <<link, pending, wire, accepted, tasks, served, removed, refused, backlog, queue,
                     shown, modal, told, replaced, hasty>>
  BY DEF ReportProgress, Answer, allVars, vars, serviceVars, guiVars
<1>2. Reply("progress", {n}) \in Replies
  BY DEF Reply, Replies
<1>3. unread' \in Seq(Replies) /\ Len(unread') = Len(unread) + 1
  BY <1>1, <1>2, Typed
<1>4. RoundTypeOK'
  <2>1. TypeOK' /\ LifeTypeOK'
    BY DEF LifeInv, Inv
  <2>2. reports' \in 0 .. MaxReports /\ crossed' \in BOOLEAN
    BY <1>1, RoundAssumption DEF RoundInv, RoundTypeOK, Quiet
  <2>3. served' \in 0 .. Len(wire')
    BY <1>1, Typed
  <2>4. QED
    BY <1>1, <1>3, <2>1, <2>2, <2>3 DEF RoundInv, RoundTypeOK
<1>5. FreshLink'
  BY <1>1 DEF FreshLink
<1>6. OneInFlight'
  <2> SUFFICES ASSUME ~crossed' PROVE InFlight' <= 1 /\ backlog' = <<>>
    BY DEF OneInFlight
  <2>1. Quiet
    BY <1>1
  <2>2. /\ Len(pending) = 0 /\ served = Len(wire) /\ Len(unread) = 0 /\ Len(backlog) = 0
        /\ Len(queue) = 0 /\ backlog = <<>>
    BY <2>1 DEF Quiet
  <2>3. /\ Len(pending') = 0 /\ Len(wire') = served' /\ Len(unread') = 1 /\ Len(backlog') = 0
        /\ Len(queue') = 0 /\ served' \in Nat /\ backlog' = <<>>
    BY <1>1, <1>3, <2>2, Counted
  <2>4. QED
    BY <2>3, OneThing DEF InFlight
<1>7. QED
  BY <1>4, <1>5, <1>6 DEF RoundInv

-----------------------------------------------------------------------------
\* command_handler posts one event for each command, of the same names.
LEMMA PostsOne ==
    ASSUME NEW c \in Replies
    PROVE  \E e \in Events :
              /\ Posts(c) = <<e>>
              /\ e.names = c.names
<1>1. c.names \in SUBSET Names /\ c.what \in {"init", "add", "remove", "progress", "-1"}
  BY DEF Replies
<1>2. \A w \in {"fetched", "added", "deleted", "completion", "error"} :
         /\ Reply(w, c.names) \in Events
         /\ Reply(w, c.names).names = c.names
         /\ Reply(w, c.names).what = w
  BY <1>1 DEF Reply, Events
<1> HIDE DEF Reply
<1>3. CASE c.what = "init"
  BY <1>2, <1>3 DEF Posts
<1>4. CASE c.what = "add"
  BY <1>2, <1>4 DEF Posts
<1>5. CASE c.what = "remove"
  BY <1>2, <1>5 DEF Posts
<1>6. CASE c.what = "progress"
  BY <1>2, <1>6 DEF Posts
<1>7. CASE c.what = "-1"
  BY <1>2, <1>7 DEF Posts
<1>8. QED
  BY <1>1, <1>3, <1>4, <1>5, <1>6, <1>7

LEMMA ReadingInv ==
    ASSUME RoundInv, LifeInv', unread # <<>>,
           NEW k \in 0 .. Len(unread), k + Len(backlog) > 0, ReadSome(k)
    PROVE  RoundInv'
<1> DEFINE read == SubSeq(unread, 1, k)
           msg == backlog \o read
           rest == SubSeq(unread, k + 1, Len(unread))
<1>1. /\ backlog' = Tail(msg)
      /\ queue' = queue \o Posts(Head(msg))
      /\ unread' = rest
      /\ UNCHANGED <<vars, tasks, served, removed, refused, shown, modal, told, replaced,
                     reports, hasty, crossed>>
  BY DEF ReadSome, allVars, serviceVars, paceVars
<1>2. UNCHANGED <<link, pending, wire, accepted>>
  BY <1>1 DEF vars
<1>3. k \in Int /\ k >= 0 /\ k <= Len(unread)
  BY Typed
<1>4. read \in Seq(Replies) /\ Len(read) = k
  <2>1. \A i \in 1 .. k : unread[i] \in Replies
    BY <1>3, Typed, ElementOfSeq
  <2>2. QED
    BY <1>3, <2>1, SubSeqProperties
<1>5. rest \in Seq(Replies) /\ Len(rest) = Len(unread) - k
  <2>1. \A i \in k + 1 .. Len(unread) : unread[i] \in Replies
    BY <1>3, Typed, ElementOfSeq
  <2>2. k + 1 \in Int /\ Len(unread) \in Int
    BY <1>3, Typed
  <2>3. /\ rest \in Seq(Replies)
        /\ Len(rest) = IF k + 1 <= Len(unread) THEN Len(unread) - (k + 1) + 1 ELSE 0
    BY <2>1, <2>2, SubSeqProperties
  <2>4. QED
    BY <1>3, <2>3, Typed
<1>6. msg \in Seq(Replies) /\ Len(msg) = Len(backlog) + k /\ msg # <<>>
  <2>1. msg \in Seq(Replies) /\ Len(msg) = Len(backlog) + k
    BY <1>4, Typed, ConcatProperties
  <2>2. QED
    BY <1>3, <2>1, Counted
<1> HIDE DEF read, msg, rest
<1>7. Head(msg) \in Replies /\ Tail(msg) \in Seq(Replies) /\ Len(Tail(msg)) = Len(backlog) + k - 1
  BY <1>3, <1>6, Typed, HeadTailProperties
<1>8. PICK e \in Events : Posts(Head(msg)) = <<e>>
  BY <1>7, PostsOne
<1>9. queue' \in Seq(Events) /\ Len(queue') = Len(queue) + 1
  <2>1. <<e>> \in Seq(Events) /\ Len(<<e>>) = 1
    OBVIOUS
  <2>2. queue \o <<e>> \in Seq(Events) /\ Len(queue \o <<e>>) = Len(queue) + Len(<<e>>)
    BY <2>1, Typed, ConcatProperties
  <2>3. queue' = queue \o <<e>>
    BY <1>1, <1>8
  <2>4. QED
    BY <2>1, <2>2, <2>3
<1>10. RoundTypeOK'
  <2>1. TypeOK' /\ LifeTypeOK'
    BY DEF LifeInv, Inv
  <2>2. QED
    BY <1>1, <1>2, <1>5, <1>7, <1>9, <2>1 DEF RoundInv, RoundTypeOK
<1>11. FreshLink'
  <2>1. link # "none"
    BY DEF RoundInv, FreshLink, Quiet
  <2>2. QED
    BY <1>2, <2>1 DEF RoundInv, FreshLink
<1>12. OneInFlight'
  <2> SUFFICES ASSUME ~crossed PROVE InFlight' <= 1 /\ backlog' = <<>>
    BY <1>1 DEF OneInFlight
  <2>1. Len(unread) >= 1
    BY Typed, EmptySeq
  <2>2. /\ backlog = <<>> /\ Len(unread) = 1 /\ Len(pending) = 0 /\ Len(wire) = served
        /\ Len(queue) = 0
    BY <2>1, PacedOne
  <2>3. k = 1 /\ Len(backlog) = 0
    BY <1>3, <2>2
  <2>4. /\ Len(pending') = 0 /\ Len(wire') = served' /\ Len(unread') = 0 /\ Len(backlog') = 0
        /\ Len(queue') = 1 /\ served' \in Nat
    BY <1>1, <1>2, <1>5, <1>7, <1>9, <2>2, <2>3, Counted
  <2>5. InFlight' <= 1
    BY <2>4, OneThing DEF InFlight
  <2>6. backlog' = <<>>
    BY <1>1, <1>7, <2>4, EmptySeq
  <2>7. QED
    BY <2>5, <2>6
<1>13. QED
  BY <1>10, <1>11, <1>12 DEF RoundInv

-----------------------------------------------------------------------------
\* An event leaves the queue, whatever is done with it.
LEMMA EventInv ==
    ASSUME RoundInv, LifeInv', queue # <<>>, queue' = Tail(queue),
           UNCHANGED <<vars, tasks, served, removed, refused, unread, backlog,
                       reports, hasty, crossed>>,
           shown' \subseteq Names, modal' \in BOOLEAN, told' \in Seq(SUBSET Names),
           replaced' \in BOOLEAN
    PROVE  RoundInv'
<1>1. UNCHANGED <<link, pending, wire, accepted>>
  BY DEF vars
<1>2. Tail(queue) \in Seq(Events) /\ Len(Tail(queue)) = Len(queue) - 1
  BY Typed, HeadTailProperties
<1>3. RoundTypeOK'
  <2>1. TypeOK' /\ LifeTypeOK'
    BY DEF LifeInv, Inv
  <2>2. QED
    BY <1>1, <1>2, <2>1 DEF RoundInv, RoundTypeOK
<1>4. FreshLink'
  BY <1>1 DEF RoundInv, FreshLink, Quiet
<1>5. OneInFlight'
  BY <1>1, <1>2, Typed DEF RoundInv, OneInFlight, InFlight, Sum
<1>6. QED
  BY <1>3, <1>4, <1>5 DEF RoundInv

LEMMA GuiInv ==
    ASSUME RoundInv, LifeInv', Gui
    PROVE  RoundInv'
<1>1. /\ queue # <<>> /\ queue' = Tail(queue)
      /\ UNCHANGED <<vars, tasks, served, removed, refused, unread, backlog, reports, hasty, crossed>>
  BY DEF Gui, TableEvent, ErrorThrown, allVars, serviceVars, paceVars
<1>2. Head(queue) \in Events
  BY <1>1, Typed, HeadTailProperties
<1>3. shown \subseteq Names /\ modal \in BOOLEAN /\ told \in Seq(SUBSET Names) /\ replaced \in BOOLEAN
  BY DEF RoundInv, RoundTypeOK
<1>4. CASE TableEvent
  <2>1. UNCHANGED <<modal, told, replaced>>
    BY <1>4 DEF TableEvent
  <2>2. Head(queue).what \in {"fetched", "added", "deleted", "completion"}
    BY <1>2, <1>4 DEF TableEvent, Events
  <2>3. shown' \subseteq Names
    <3>1. Head(queue).names \subseteq Names
      BY <1>2 DEF Events
    <3>2. CASE Head(queue).what \in {"fetched", "added"}
      BY <1>3, <1>4, <3>1, <3>2 DEF TableEvent
    <3>3. CASE Head(queue).what = "deleted"
      BY <1>3, <1>4, <3>3 DEF TableEvent, Without
    <3>4. CASE Head(queue).what = "completion"
      BY <1>3, <1>4, <3>4 DEF TableEvent
    <3>5. QED
      BY <2>2, <3>2, <3>3, <3>4
  <2>4. QED
    BY <1>1, <1>3, <2>1, <2>3, EventInv
<1>5. CASE ErrorThrown
  <2>1. /\ shown' = shown /\ modal' = TRUE /\ replaced' = (replaced \/ modal)
        /\ told' = Append(told, Head(queue).names)
    BY <1>5 DEF ErrorThrown
  <2>2. told' \in Seq(SUBSET Names)
    BY <1>2, <1>3, <2>1 DEF Events
  <2>3. replaced' \in BOOLEAN
    BY <1>3, <2>1
  <2>4. QED
    BY <1>1, <1>3, <2>1, <2>2, <2>3, EventInv
<1>6. QED
  BY <1>4, <1>5 DEF Gui

LEMMA AcceptInv ==
    ASSUME RoundInv, LifeInv', Accept
    PROVE  RoundInv'
<1>1. /\ modal' = FALSE
      /\ UNCHANGED <<link, pending, wire, accepted, tasks, served, removed, refused, unread,
                     backlog, queue, shown, told, replaced, reports, hasty, crossed>>
  BY DEF Accept, allVars, vars, serviceVars, paceVars
<1>2. RoundTypeOK'
  BY <1>1 DEF RoundInv, RoundTypeOK, LifeInv, Inv
<1>3. QED
  BY <1>1, <1>2 DEF RoundInv, FreshLink, Quiet, OneInFlight, InFlight, Sum

-----------------------------------------------------------------------------
\* The user asks; if nothing was on its way, this is the one thing in flight.
LEMMA AskInv ==
    ASSUME RoundInv, LifeInv', NEW kind \in Kinds, NEW n \in Names, Ask(kind, n)
    PROVE  RoundInv'
<1>1. /\ hasty' = (hasty \/ ~Settled)
      /\ crossed' = (crossed \/ ~Quiet)
      /\ UNCHANGED <<link, wire, tasks, served, removed, refused, unread, backlog, queue, shown,
                     modal, told, replaced, reports>>
  BY DEF Ask, Paced, UserNotifies, Notify, serviceVars, guiVars
<1>2. \/ link = "up" /\ pending' = Posted(pending, <<kind, n>>)
      \/ link # "up" /\ UNCHANGED pending
  BY DEF Ask, UserNotifies, Notify
<1>3. link = "up" => Len(pending') = Len(pending) + 1
  BY <1>2, Typed, CommandTyped, PostedAppends
<1>4. hasty' \in BOOLEAN /\ crossed' \in BOOLEAN
  BY <1>1 DEF RoundInv, RoundTypeOK, Quiet, Settled, OnlyReports
<1>5. RoundTypeOK'
  BY <1>1, <1>4 DEF RoundInv, RoundTypeOK, LifeInv, Inv
<1>6. FreshLink'
  BY <1>1, <1>2 DEF RoundInv, FreshLink, Quiet
<1>7. OneInFlight'
  <2> SUFFICES ASSUME ~crossed' PROVE InFlight' <= 1 /\ backlog' = <<>>
    BY DEF OneInFlight
  <2>1. /\ Len(pending) = 0 /\ served = Len(wire) /\ Len(unread) = 0 /\ Len(backlog) = 0
        /\ Len(queue) = 0 /\ backlog = <<>>
    BY <1>1 DEF Quiet
  <2>2. Len(pending') = 1 \/ Len(pending') = 0
    BY <1>2, <1>3, <2>1
  <2>3. /\ Len(wire') = served' /\ Len(unread') = 0 /\ Len(backlog') = 0 /\ Len(queue') = 0
        /\ served' \in Nat /\ backlog' = <<>>
    BY <1>1, <2>1, Counted
  <2>4. InFlight' <= 1
    BY <2>2, <2>3, OneThing DEF InFlight
  <2>5. QED
    BY <2>3, <2>4
<1>8. QED
  BY <1>5, <1>6, <1>7 DEF RoundInv

-----------------------------------------------------------------------------
LEMMA RoundStep == RoundInv /\ [RoundNext]_roundVars => RoundInv'
<1> SUFFICES ASSUME RoundInv, [RoundNext]_roundVars PROVE RoundInv'
  OBVIOUS
<1>1. LifeInv'
  BY RoundStepIsLifeStep, LifeStep DEF RoundInv
<1>2. CASE Live \/ Begin \/ Exit \/ Leave \/ Arrive \/ UNCHANGED roundVars
  BY <1>1, <1>2, ProcessInv
<1>3. CASE Greet
  BY <1>1, <1>3, GreetInv
<1>4. CASE Serve
  BY <1>1, <1>4, ServeInv
<1>5. CASE StartReading \/ \E n \in Names : ReportProgress(n)
  BY <1>1, <1>5, ReadingInv, ReportInv DEF StartReading
<1>6. CASE Gui \/ Accept
  BY <1>1, <1>6, GuiInv, AcceptInv
<1>7. ASSUME NEW kind \in Kinds, NEW n \in Names, Ask(kind, n)
      PROVE  RoundInv'
  BY <1>1, <1>7, AskInv
<1>8. QED
  BY <1>2, <1>3, <1>4, <1>5, <1>6, <1>7 DEF RoundNext

\* The inductive invariant holds in every round trip.
THEOREM RoundInvariance == RoundSpec => []RoundInv
BY InitRoundInv, RoundStep, PTL DEF RoundSpec

\* Every variable of the round trip has its type.
THEOREM RoundTypeCorrect == RoundSpec => []RoundTypeOK
<1>1. RoundInv => RoundTypeOK
  BY DEF RoundInv
<1>2. QED
  BY <1>1, RoundInvariance, PTL

\* As long as nothing crosses no command stays in the reader's msg.
THEOREM PacedReaderKeepsUp == RoundSpec => []PacedKeepsUp
<1>1. RoundInv => PacedKeepsUp
  BY DEF RoundInv, OneInFlight, PacedKeepsUp
<1>2. QED
  BY <1>1, RoundInvariance, PTL

-----------------------------------------------------------------------------
\* What is on its way to the user, whichever queue it is in: commands the service has
\* sent, those in msg, and the events posted, oldest first, by what they do to the rows.
Does(what) ==
    CASE what \in {"init", "add", "fetched", "added"} -> "puts"
      [] what \in {"remove", "deleted"} -> "takes"
      [] what \in {"-1", "error"} -> "tells"
      [] what \in {"progress", "completion"} -> "nothing"

Meaning(m) == [does |-> Does(m.what), names |-> m.names]

Meant(s) == [i \in 1 .. Len(s) |-> Meaning(s[i])]

Messages == Replies \cup Events
Meanings == [does : {"puts", "takes", "tells", "nothing"}, names : SUBSET Names]

LineOf(q, b, u) == Meant((q \o b) \o u)

Line == LineOf(queue, backlog, unread)

LEMMA MeaningTyped ==
    ASSUME NEW m \in Messages
    PROVE  Meaning(m) \in Meanings
<1>1. /\ m.what \in {"init", "add", "fetched", "added", "remove", "deleted", "-1", "error",
                     "progress", "completion"}
      /\ m.names \in SUBSET Names
  BY DEF Messages, Replies, Events
<1>2. Does(m.what) \in {"puts", "takes", "tells", "nothing"}
  BY <1>1 DEF Does
<1>3. QED
  BY <1>1, <1>2 DEF Meaning, Meanings

LEMMA MeantTyped ==
    ASSUME NEW s \in Seq(Messages)
    PROVE  /\ Meant(s) \in Seq(Meanings)
           /\ Len(Meant(s)) = Len(s)
           /\ \A i \in 1 .. Len(s) : Meant(s)[i] = Meaning(s[i])
<1>1. \A i \in 1 .. Len(s) : s[i] \in Messages
  OBVIOUS
<1>2. \A i \in 1 .. Len(s) : Meaning(s[i]) \in Meanings
  BY <1>1, MeaningTyped
<1>3. Meant(s) \in [1 .. Len(s) -> Meanings]
  BY <1>2 DEF Meant
<1>4. Len(s) \in Nat
  OBVIOUS
<1>5. QED
  BY <1>3, <1>4 DEF Meant

LEMMA HeadAndTail ==
    ASSUME NEW S, NEW q \in Seq(S), q # <<>>
    PROVE  q = <<Head(q)>> \o Tail(q) /\ Head(q) \in S /\ Tail(q) \in Seq(S)
OBVIOUS

LEMMA Pushed ==
    ASSUME NEW S, NEW q \in Seq(S), NEW x \in S
    PROVE  Tail(<<x>> \o q) = q /\ (<<x>> \o q)[1] = x /\ <<x>> \o q # <<>>
BY ConcatProperties

LEMMA AppendMoved ==
    ASSUME NEW S, NEW q \in Seq(S), NEW b \in Seq(S), NEW x \in S
    PROVE  q \o Append(b, x) = Append(q \o b, x) /\ Append(b, x) = b \o <<x>>
OBVIOUS

LEMMA MeantConcat ==
    ASSUME NEW s \in Seq(Messages), NEW t \in Seq(Messages)
    PROVE  Meant(s \o t) = Meant(s) \o Meant(t)
<1> DEFINE ls == Len(s)
           lt == Len(t)
           st == s \o t
           a == Meant(st)
           ms == Meant(s)
           mt == Meant(t)
           b == ms \o mt
<1>1. ls \in Nat /\ lt \in Nat
  OBVIOUS
<1>2. /\ st \in Seq(Messages) /\ Len(st) = ls + lt
      /\ \A i \in 1 .. ls : st[i] = s[i]
      /\ \A i \in 1 .. lt : st[ls + i] = t[i]
  OBVIOUS
<1> HIDE DEF st
<1>3. a \in Seq(Meanings) /\ Len(a) = ls + lt /\ \A i \in 1 .. ls + lt : a[i] = Meaning(st[i])
  BY <1>2, MeantTyped
<1>4. /\ ms \in Seq(Meanings) /\ Len(ms) = ls /\ \A i \in 1 .. ls : ms[i] = Meaning(s[i])
      /\ mt \in Seq(Meanings) /\ Len(mt) = lt /\ \A i \in 1 .. lt : mt[i] = Meaning(t[i])
  BY MeantTyped
<1> HIDE DEF ms, mt, a, ls, lt
<1>5. /\ b \in Seq(Meanings) /\ Len(b) = ls + lt
      /\ \A i \in 1 .. ls : b[i] = ms[i]
      /\ \A i \in 1 .. lt : b[ls + i] = mt[i]
  <2>1. /\ b \in Seq(Meanings) /\ Len(b) = Len(ms) + Len(mt)
        /\ \A i \in 1 .. Len(ms) : b[i] = ms[i]
        /\ \A i \in 1 .. Len(mt) : b[Len(ms) + i] = mt[i]
    <3>1. ms \in Seq(Meanings) /\ mt \in Seq(Meanings)
      BY <1>4
    <3>2. QED
      BY <3>1
  <2>2. QED
    BY <1>4, <2>1
<1> HIDE DEF b
<1>6. ASSUME NEW i \in 1 .. ls + lt PROVE a[i] = b[i]
  <2>1. CASE i <= ls
    <3>1. i \in 1 .. ls
      BY <1>1, <2>1
    <3>2. a[i] = Meaning(s[i])
      BY <1>2, <1>3, <3>1
    <3>3. b[i] = Meaning(s[i])
      BY <1>4, <1>5, <3>1
    <3>4. QED
      BY <3>2, <3>3
  <2>2. CASE ~(i <= ls)
    <3> DEFINE k == i - ls
    <3>1. k \in 1 .. lt /\ i = ls + k
      BY <1>1, <2>2
    <3> HIDE DEF k
    <3>2. a[i] = Meaning(t[k])
      BY <1>2, <1>3, <3>1
    <3>3. b[i] = Meaning(t[k])
      BY <1>4, <1>5, <3>1
    <3>4. QED
      BY <3>2, <3>3
  <2>3. QED
    BY <2>1, <2>2
<1>7. QED
  BY <1>3, <1>5, <1>6, SeqEqual DEF a, b, ms, mt, st

LEMMA LineTyped ==
    ASSUME RoundInv
    PROVE  /\ queue \in Seq(Messages) /\ backlog \in Seq(Messages) /\ unread \in Seq(Messages)
           /\ (queue \o backlog) \o unread \in Seq(Messages)
           /\ Line \in Seq(Meanings)
           /\ Len(Line) = Len(queue) + Len(backlog) + Len(unread)
<1>1. queue \in Seq(Messages) /\ backlog \in Seq(Messages) /\ unread \in Seq(Messages)
  BY Typed DEF Messages
<1>2. queue \o backlog \in Seq(Messages) /\ Len(queue \o backlog) = Len(queue) + Len(backlog)
  BY <1>1, ConcatProperties
<1>3. /\ (queue \o backlog) \o unread \in Seq(Messages)
      /\ Len((queue \o backlog) \o unread) = Len(queue) + Len(backlog) + Len(unread)
  BY <1>1, <1>2, ConcatProperties
<1>4. QED
  BY <1>1, <1>3, MeantTyped DEF Line, LineOf

\* With nothing in the queues nothing is on its way.
LEMMA LineEmpty == LineOf(<<>>, <<>>, <<>>) = <<>>
<1>1. (<<>> \o <<>>) \o <<>> = <<>> /\ Len(<<>>) = 0
  <2>1. <<>> \in Seq(Messages)
    OBVIOUS
  <2>2. <<>> \o <<>> = <<>>
    BY <2>1, ConcatEmptySeq
  <2>3. QED
    BY <2>2
<1>2. QED
  BY <1>1 DEF LineOf, Meant

\* The service says something more.
LEMMA LineSent ==
    ASSUME NEW q \in Seq(Messages), NEW b \in Seq(Messages), NEW u \in Seq(Messages), NEW a \in Messages
    PROVE  LineOf(q, b, Append(u, a)) = Append(LineOf(q, b, u), Meaning(a))
<1> DEFINE s == q \o b
           r == s \o u
           o == <<a>>
           m == Meant(r)
<1>1. s \in Seq(Messages) /\ o \in Seq(Messages)
  BY ConcatProperties
<1>2. Meant(o) = <<Meaning(a)>>
  BY DEF Meant
<1> HIDE DEF s
<1>3. s \o Append(u, a) = Append(r, a) /\ r \in Seq(Messages)
  BY <1>1, AppendMoved, ConcatProperties
<1> HIDE DEF r
<1>4. Append(r, a) = r \o o
  BY <1>3, AppendMoved
<1> HIDE DEF o
<1>5. Meant(r \o o) = m \o <<Meaning(a)>>
  BY <1>1, <1>2, <1>3, MeantConcat
<1>6. m \in Seq(Meanings) /\ Meaning(a) \in Meanings
  BY <1>3, MeantTyped, MeaningTyped
<1> HIDE DEF m
<1>7. m \o <<Meaning(a)>> = Append(m, Meaning(a))
  BY <1>6
<1>8. QED
  BY <1>3, <1>4, <1>5, <1>7 DEF LineOf, s, r, m

\* One message in the place of another that means the same.
LEMMA MeantSwap ==
    ASSUME NEW q \in Seq(Messages), NEW x \in Seq(Messages), NEW h \in Messages, NEW e \in Messages,
           Meaning(h) = Meaning(e)
    PROVE  Meant(q \o (<<h>> \o x)) = Meant(q \o (<<e>> \o x))
<1> DEFINE oh == <<h>>
           oe == <<e>>
           hx == oh \o x
           ex == oe \o x
<1>1. Meant(oh) = Meant(oe)
  BY DEF Meant
<1>2. oh \in Seq(Messages) /\ oe \in Seq(Messages) /\ hx \in Seq(Messages) /\ ex \in Seq(Messages)
  BY ConcatProperties
<1> HIDE DEF oh, oe
<1>3. Meant(hx) = Meant(oh) \o Meant(x) /\ Meant(ex) = Meant(oe) \o Meant(x)
  BY <1>2, MeantConcat
<1> HIDE DEF hx, ex
<1>4. Meant(q \o hx) = Meant(q) \o Meant(hx) /\ Meant(q \o ex) = Meant(q) \o Meant(ex)
  BY <1>2, MeantConcat
<1>5. QED
  BY <1>1, <1>3, <1>4 DEF hx, ex, oh, oe

\* A read moves what is on its way a queue further, and changes nothing of it.
LEMMA LineRead ==
    ASSUME NEW q \in Seq(Messages), NEW b \in Seq(Messages), NEW read \in Seq(Messages),
           NEW rest \in Seq(Messages), NEW e \in Messages,
           b \o read # <<>>, Meaning(e) = Meaning(Head(b \o read))
    PROVE  LineOf(q \o <<e>>, Tail(b \o read), rest) = LineOf(q, b, read \o rest)
<1> DEFINE msg == b \o read
           h == Head(msg)
           t == Tail(msg)
           x == t \o rest
           oh == <<h>>
           oe == <<e>>
<1>1. msg \in Seq(Messages)
  BY ConcatProperties
<1>2. (q \o b) \o (read \o rest) = q \o (msg \o rest)
  <2>1. (q \o b) \o (read \o rest) = q \o ((b \o read) \o rest)
    <3> DEFINE y == read \o rest
    <3>1. y \in Seq(Messages)
      BY ConcatProperties
    <3>2. b \o y = (b \o read) \o rest
      OBVIOUS
    <3> HIDE DEF y
    <3>3. (q \o b) \o y = q \o (b \o y)
      BY <3>1
    <3>4. QED
      BY <3>2, <3>3 DEF y
  <2>2. QED
    BY <2>1
<1>3. Meaning(e) = Meaning(h) /\ msg # <<>>
  OBVIOUS
<1> HIDE DEF msg
<1>4. h \in Messages /\ t \in Seq(Messages) /\ msg = oh \o t
  BY <1>1, <1>3, HeadAndTail
<1>5. oe \in Seq(Messages) /\ oh \in Seq(Messages)
  BY <1>4
<1> HIDE DEF h, t, oh, oe
<1>6. msg \o rest = oh \o x /\ x \in Seq(Messages)
  <2>1. (oh \o t) \o rest = oh \o (t \o rest)
    <3>1. oh \in Seq(Messages) /\ t \in Seq(Messages)
      BY <1>4, <1>5
    <3>2. QED
      BY <3>1
  <2>2. t \o rest \in Seq(Messages)
    BY <1>4, ConcatProperties
  <2>3. QED
    BY <1>4, <2>1, <2>2
<1>7. ((q \o oe) \o t) \o rest = q \o (oe \o x)
  <2>1. oe \in Seq(Messages) /\ t \in Seq(Messages)
    BY <1>4, <1>5
  <2>2. ((q \o oe) \o t) \o rest = q \o (oe \o (t \o rest))
    <3> DEFINE y == q \o oe
               z == t \o rest
    <3>1. y \in Seq(Messages) /\ z \in Seq(Messages)
      BY <2>1, ConcatProperties
    <3> HIDE DEF y
    <3>2. (y \o t) \o rest = y \o (t \o rest)
      <4>1. y \in Seq(Messages) /\ t \in Seq(Messages)
        BY <2>1, <3>1
      <4>2. QED
        BY <4>1
    <3> HIDE DEF z
    <3>3. (q \o oe) \o z = q \o (oe \o z)
      <4>1. oe \in Seq(Messages) /\ z \in Seq(Messages)
        BY <2>1, <3>1
      <4>2. QED
        BY <4>1
    <3>4. QED
      BY <3>2, <3>3 DEF y, z
  <2>3. QED
    BY <2>2
<1> HIDE DEF x
<1>8. Meant(q \o (oh \o x)) = Meant(q \o (oe \o x))
  BY <1>3, <1>4, <1>6, MeantSwap DEF oh, oe
<1>9. QED
  BY <1>2, <1>6, <1>7, <1>8 DEF LineOf, msg, t, oe

\* The GUI thread takes the oldest.
LEMMA LineTaken ==
    ASSUME NEW q \in Seq(Messages), NEW b \in Seq(Messages), NEW u \in Seq(Messages), q # <<>>
    PROVE  /\ LineOf(q, b, u) # <<>>
           /\ LineOf(q, b, u)[1] = Meaning(Head(q))
           /\ LineOf(Tail(q), b, u) = Tail(LineOf(q, b, u))
<1> DEFINE h == Head(q)
           t == Tail(q)
           o == <<h>>
           x == (t \o b) \o u
<1>1. h \in Messages /\ t \in Seq(Messages) /\ q = o \o t
  BY HeadAndTail
<1>2. o \in Seq(Messages)
  BY <1>1
<1>3. Meant(o) = <<Meaning(h)>> /\ Meaning(h) \in Meanings
  BY <1>1, MeaningTyped DEF Meant
<1> HIDE DEF h, t, o
<1>4. (q \o b) \o u = o \o x /\ x \in Seq(Messages)
  <2>1. t \o b \in Seq(Messages)
    BY <1>1, ConcatProperties
  <2>2. (o \o t) \o b = o \o (t \o b)
    BY <1>1, <1>2
  <2> DEFINE y == t \o b
  <2> HIDE DEF y
  <2>3. (o \o y) \o u = o \o (y \o u) /\ y \o u \in Seq(Messages)
    BY <1>2, <2>1 DEF y
  <2>4. QED
    BY <1>1, <2>2, <2>3 DEF y
<1> HIDE DEF x
<1>5. LineOf(q, b, u) = <<Meaning(h)>> \o Meant(x)
  BY <1>2, <1>3, <1>4, MeantConcat DEF LineOf
<1>6. LineOf(t, b, u) = Meant(x)
  BY DEF LineOf, x
<1>7. Meant(x) \in Seq(Meanings)
  BY <1>4, MeantTyped
<1> DEFINE m == Meaning(h)
           y == Meant(x)
<1> HIDE DEF m, y
<1>8. m \in Meanings /\ y \in Seq(Meanings)
  BY <1>3, <1>7 DEF m, y
<1>9. <<m>> \o y # <<>> /\ (<<m>> \o y)[1] = m /\ Tail(<<m>> \o y) = y
  BY <1>8, Pushed
<1>10. QED
  BY <1>5, <1>6, <1>9 DEF h, t, m, y


-----------------------------------------------------------------------------
\* The refusals that have not been shown are on their way, and nothing else is told:
\* place[r] is where on the line the r-th refusal is, first the oldest of them.
Placed(place, line, first, ref) ==
    /\ place \in [first .. Len(ref) -> 1 .. Len(line)]
    /\ \A r, s \in first .. Len(ref) : r < s => place[r] < place[s]
    /\ \A r \in first .. Len(ref) : line[place[r]] = [does |-> "tells", names |-> ref[r]]
    /\ \A i \in 1 .. Len(line) :
          line[i].does = "tells" => \E r \in first .. Len(ref) : place[r] = i

ErrorsComing(line, tl, ref) ==
    /\ Len(tl) <= Len(ref)
    /\ \A k \in 1 .. Len(tl) : tl[k] = ref[k]
    /\ \E place \in [Len(tl) + 1 .. Len(ref) -> 1 .. Len(line)] :
          Placed(place, line, Len(tl) + 1, ref)

\* An answer that tells nothing.
LEMMA NothingToldYet ==
    ASSUME NEW line \in Seq(Meanings), NEW ref \in Seq(SUBSET Names), NEW first \in Nat,
           NEW m \in Meanings, m.does # "tells",
           NEW place, Placed(place, line, first, ref)
    PROVE  Placed(place, Append(line, m), first, ref)
<1> DEFINE l == Len(line)
           line2 == Append(line, m)
<1>1. /\ l \in Nat /\ Len(line2) = l + 1
      /\ \A i \in 1 .. l : line2[i] = line[i]
      /\ line2[l + 1] = m
  OBVIOUS
<1> HIDE DEF l, line2
<1>2. /\ place \in [first .. Len(ref) -> 1 .. l]
      /\ \A r, s \in first .. Len(ref) : r < s => place[r] < place[s]
      /\ \A r \in first .. Len(ref) : line[place[r]] = [does |-> "tells", names |-> ref[r]]
      /\ \A i \in 1 .. l : line[i].does = "tells" => \E r \in first .. Len(ref) : place[r] = i
  BY DEF Placed, l
<1>3. place \in [first .. Len(ref) -> 1 .. l + 1]
  BY <1>1, <1>2
<1>4. \A r \in first .. Len(ref) : line2[place[r]] = [does |-> "tells", names |-> ref[r]]
  BY <1>1, <1>2
<1>5. ASSUME NEW i \in 1 .. l + 1, line2[i].does = "tells"
      PROVE  \E r \in first .. Len(ref) : place[r] = i
  <2>1. i # l + 1
    BY <1>1, <1>5
  <2>2. i \in 1 .. l
    BY <1>1, <2>1
  <2>3. QED
    BY <1>1, <1>2, <1>5, <2>2
<1>6. QED
  BY <1>1, <1>2, <1>3, <1>4, <1>5 DEF Placed, line2

\* A refusal, told at the end of the line.
LEMMA OneMoreTold ==
    ASSUME NEW line \in Seq(Meanings), NEW ref \in Seq(SUBSET Names), NEW first \in 1 .. Len(ref) + 1,
           NEW names \in SUBSET Names, NEW place, Placed(place, line, first, ref)
    PROVE  \E later : Placed(later, Append(line, [does |-> "tells", names |-> names]), first,
                             Append(ref, names))
<1> DEFINE l == Len(line)
           n == Len(ref)
           m == [does |-> "tells", names |-> names]
           line2 == Append(line, m)
           ref2 == Append(ref, names)
           later == [r \in first .. n + 1 |-> IF r = n + 1 THEN l + 1 ELSE place[r]]
<1>1. /\ l \in Nat /\ n \in Nat
      /\ Len(line2) = l + 1 /\ Len(ref2) = n + 1
      /\ \A i \in 1 .. l : line2[i] = line[i]
      /\ \A r \in 1 .. n : ref2[r] = ref[r]
      /\ line2[l + 1] = m /\ ref2[n + 1] = names
  BY DEF Meanings
<1>2. first \in Nat /\ first >= 1 /\ first <= n + 1
  BY <1>1
<1>3. m.does = "tells" /\ m.names = names
  OBVIOUS
<1>4. /\ place \in [first .. n -> 1 .. l]
      /\ \A r, s \in first .. n : r < s => place[r] < place[s]
      /\ \A r \in first .. n : line[place[r]] = [does |-> "tells", names |-> ref[r]]
      /\ \A i \in 1 .. l : line[i].does = "tells" => \E r \in first .. n : place[r] = i
  BY DEF Placed
<1> HIDE DEF l, n, line2, ref2
<1>5. /\ later[n + 1] = l + 1
      /\ \A r \in first .. n : later[r] = place[r] /\ place[r] \in 1 .. l
      /\ \A r \in first .. n + 1 : r \in first .. n \/ r = n + 1
      /\ \A r \in first .. n : r \in 1 .. n
  BY <1>1, <1>2, <1>4
<1>6. later \in [first .. n + 1 -> 1 .. l + 1]
  <2>1. ASSUME NEW r \in first .. n + 1
        PROVE  (IF r = n + 1 THEN l + 1 ELSE place[r]) \in 1 .. l + 1
    <3>1. CASE r = n + 1
      BY <1>1, <3>1
    <3>2. CASE r # n + 1
      <4>1. place[r] \in 1 .. l
        BY <1>5, <3>2
      <4>2. place[r] \in 1 .. l + 1
        BY <1>1, <4>1
      <4>3. QED
        BY <3>2, <4>2
    <3>3. QED
      BY <3>1, <3>2
  <2>2. QED
    BY <2>1
<1> HIDE DEF later
<1>7. ASSUME NEW r \in first .. n + 1, NEW s \in first .. n + 1, r < s
      PROVE  later[r] < later[s]
  <2>1. r \in first .. n
    BY <1>1, <1>2, <1>7
  <2>2. CASE s = n + 1
    BY <1>1, <1>5, <2>1, <2>2
  <2>3. CASE s \in first .. n
    BY <1>4, <1>5, <1>7, <2>1, <2>3
  <2>4. QED
    BY <1>5, <2>2, <2>3
<1>8. ASSUME NEW r \in first .. n + 1
      PROVE  line2[later[r]] = [does |-> "tells", names |-> ref2[r]]
  <2>1. CASE r = n + 1
    BY <1>1, <1>5, <2>1 DEF m
  <2>2. CASE r \in first .. n
    BY <1>1, <1>4, <1>5, <2>2
  <2>3. QED
    BY <1>5, <2>1, <2>2
<1>9. ASSUME NEW i \in 1 .. l + 1, line2[i].does = "tells"
      PROVE  \E r \in first .. n + 1 : later[r] = i
  <2>1. CASE i = l + 1
    BY <1>1, <1>2, <1>5, <2>1
  <2>2. CASE i # l + 1
    <3>1. i \in 1 .. l
      BY <1>1, <2>2
    <3>2. PICK r \in first .. n : place[r] = i
      BY <1>1, <1>4, <1>9, <3>1
    <3>3. r \in first .. n + 1
      BY <1>1, <1>2
    <3>4. QED
      BY <1>5, <3>2, <3>3
  <2>3. QED
    BY <2>1, <2>2
<1>10. Placed(later, line2, first, ref2)
  BY <1>1, <1>6, <1>7, <1>8, <1>9 DEF Placed
<1>11. QED
  BY <1>10 DEF line2, ref2, m

\* The first thing on the line leaves it, and tells nothing.
LEMMA NothingTold ==
    ASSUME NEW line \in Seq(Meanings), line # <<>>, NEW ref \in Seq(SUBSET Names), NEW first \in Nat,
           line[1].does # "tells", NEW place, Placed(place, line, first, ref)
    PROVE  \E later : Placed(later, Tail(line), first, ref)
<1> DEFINE l == Len(line)
           line2 == Tail(line)
           later == [r \in first .. Len(ref) |-> place[r] - 1]
<1>1. /\ l \in Nat /\ l >= 1 /\ Len(line2) = l - 1
      /\ \A i \in 1 .. l - 1 : line2[i] = line[i + 1]
  OBVIOUS
<1>2. /\ place \in [first .. Len(ref) -> 1 .. l]
      /\ \A r, s \in first .. Len(ref) : r < s => place[r] < place[s]
      /\ \A r \in first .. Len(ref) : line[place[r]] = [does |-> "tells", names |-> ref[r]]
      /\ \A i \in 1 .. l : line[i].does = "tells" => \E r \in first .. Len(ref) : place[r] = i
  BY DEF Placed
<1> HIDE DEF l, line2
<1>3. ASSUME NEW r \in first .. Len(ref)
      PROVE  place[r] \in 1 .. l /\ place[r] - 1 \in 1 .. l - 1 /\ place[r] = (place[r] - 1) + 1
  <2>1. place[r] \in 1 .. l
    BY <1>2
  <2>2. line[place[r]].does = "tells"
    <3>1. line[place[r]] = [does |-> "tells", names |-> ref[r]]
      BY <1>2
    <3>2. QED
      BY <3>1
  <2>3. place[r] # 1
    BY <2>2
  <2>4. QED
    BY <1>1, <2>1, <2>3
<1>4. later \in [first .. Len(ref) -> 1 .. l - 1] /\ \A r \in first .. Len(ref) : later[r] = place[r] - 1
  BY <1>3
<1> HIDE DEF later
<1>5. ASSUME NEW r \in first .. Len(ref), NEW s \in first .. Len(ref), r < s
      PROVE  later[r] < later[s]
  <2>1. place[r] \in Int /\ place[s] \in Int /\ place[r] < place[s]
    BY <1>1, <1>2, <1>3, <1>5
  <2>2. later[r] = place[r] - 1 /\ later[s] = place[s] - 1
    BY <1>4
  <2>3. QED
    BY <2>1, <2>2
<1>6. ASSUME NEW r \in first .. Len(ref)
      PROVE  line2[later[r]] = [does |-> "tells", names |-> ref[r]]
  <2>1. line2[place[r] - 1] = line[place[r]]
    BY <1>1, <1>3
  <2>2. later[r] = place[r] - 1 /\ line[place[r]] = [does |-> "tells", names |-> ref[r]]
    BY <1>2, <1>4, Zenon
  <2>3. QED
    BY <2>1, <2>2, Zenon
<1>7. ASSUME NEW i \in 1 .. l - 1, line2[i].does = "tells"
      PROVE  \E r \in first .. Len(ref) : later[r] = i
  <2>1. i + 1 \in 1 .. l /\ line[i + 1].does = "tells"
    BY <1>1, <1>7
  <2>2. PICK r \in first .. Len(ref) : place[r] = i + 1
    BY <1>2, <2>1
  <2>3. QED
    BY <1>4, <2>2
<1>8. Placed(later, line2, first, ref)
  BY <1>1, <1>4, <1>5, <1>6, <1>7 DEF Placed
<1>9. QED
  BY <1>8 DEF line2

\* The first thing on the line is a refusal: it is the oldest not shown.
LEMMA OldestTold ==
    ASSUME NEW line \in Seq(Meanings), line # <<>>, NEW ref \in Seq(SUBSET Names),
           NEW first \in Nat, first >= 1,
           line[1].does = "tells", NEW place, Placed(place, line, first, ref)
    PROVE  /\ first \in 1 .. Len(ref)
           /\ line[1].names = ref[first]
           /\ \E later : Placed(later, Tail(line), first + 1, ref)
<1> DEFINE l == Len(line)
           n == Len(ref)
           line2 == Tail(line)
           later == [r \in first + 1 .. n |-> place[r] - 1]
<1>1. /\ l \in Nat /\ l >= 1 /\ Len(line2) = l - 1 /\ n \in Nat
      /\ \A i \in 1 .. l - 1 : line2[i] = line[i + 1]
  OBVIOUS
<1>2. /\ place \in [first .. n -> 1 .. l]
      /\ \A r, s \in first .. n : r < s => place[r] < place[s]
      /\ \A r \in first .. n : line[place[r]] = [does |-> "tells", names |-> ref[r]]
      /\ \A i \in 1 .. l : line[i].does = "tells" => \E r \in first .. n : place[r] = i
  BY DEF Placed
<1> HIDE DEF l, n, line2
<1>3. PICK q \in first .. n : place[q] = 1
  BY <1>1, <1>2
<1>4. first \in first .. n /\ first \in 1 .. n
  BY <1>1, <1>3
<1>5. \A r \in first .. n : place[r] \in 1 .. l
  BY <1>2
<1>6. q = first
  <2>1. place[first] \in 1 .. l
    BY <1>4, <1>5
  <2>2. ~(first < q)
    BY <1>2, <1>3, <1>4, <2>1
  <2>3. QED
    BY <1>1, <1>3, <2>2
<1>7. line[1].names = ref[first]
  <2>1. line[place[first]] = [does |-> "tells", names |-> ref[first]]
    BY <1>2, <1>4, Zenon
  <2>2. place[first] = 1
    BY <1>3, <1>6
  <2>3. QED
    BY <2>1, <2>2
<1>8. ASSUME NEW r \in first + 1 .. n
      PROVE  /\ r \in first .. n
             /\ place[r] \in 1 .. l /\ place[r] - 1 \in 1 .. l - 1 /\ place[r] = (place[r] - 1) + 1
  <2>1. r \in first .. n /\ first < r
    BY <1>1
  <2>2. place[r] \in 1 .. l
    BY <1>5, <2>1
  <2>3. 1 < place[r]
    BY <1>2, <1>3, <1>4, <1>6, <2>1
  <2>4. QED
    BY <1>1, <2>1, <2>2, <2>3
<1>9. later \in [first + 1 .. n -> 1 .. l - 1] /\ \A r \in first + 1 .. n : later[r] = place[r] - 1
  BY <1>8
<1> HIDE DEF later
<1>10. ASSUME NEW r \in first + 1 .. n, NEW s \in first + 1 .. n, r < s
       PROVE  later[r] < later[s]
  <2>1. place[r] \in 1 .. l /\ place[s] \in 1 .. l /\ place[r] < place[s]
    BY <1>2, <1>8, <1>10
  <2>2. later[r] = place[r] - 1 /\ later[s] = place[s] - 1
    BY <1>9
  <2>3. QED
    BY <1>1, <2>1, <2>2
<1>11. ASSUME NEW r \in first + 1 .. n
       PROVE  line2[later[r]] = [does |-> "tells", names |-> ref[r]]
  <2>1. line2[place[r] - 1] = line[place[r]]
    BY <1>1, <1>8
  <2>2. later[r] = place[r] - 1 /\ line[place[r]] = [does |-> "tells", names |-> ref[r]]
    BY <1>2, <1>8, <1>9, Zenon
  <2>3. QED
    BY <2>1, <2>2, Zenon
<1>12. ASSUME NEW i \in 1 .. l - 1, line2[i].does = "tells"
       PROVE  \E r \in first + 1 .. n : later[r] = i
  <2>1. i + 1 \in 1 .. l /\ line[i + 1].does = "tells"
    BY <1>1, <1>12
  <2>2. PICK r \in first .. n : place[r] = i + 1
    BY <1>2, <2>1
  <2>3. r # first
    BY <1>3, <1>6, <2>2
  <2>4. r \in first + 1 .. n
    BY <1>1, <2>3
  <2>5. QED
    BY <1>9, <2>2, <2>4
<1>13. Placed(later, line2, first + 1, ref)
  <2> DEFINE f == first + 1
  <2>1. /\ later \in [f .. n -> 1 .. l - 1]
        /\ \A r, s \in f .. n : r < s => later[r] < later[s]
        /\ \A r \in f .. n : line2[later[r]] = [does |-> "tells", names |-> ref[r]]
        /\ \A i \in 1 .. l - 1 : line2[i].does = "tells" => \E r \in f .. n : later[r] = i
    BY <1>9, <1>10, <1>11, <1>12
  <2> HIDE DEF f
  <2>2. Placed(later, line2, f, ref)
    BY <1>1, <2>1, Zenon DEF Placed, n
  <2>3. QED
    BY <2>2 DEF f
<1>14. QED
  BY <1>4, <1>7, <1>13 DEF line2, n

\* With nothing on the line that tells every refusal has been shown.
LEMMA AllTold ==
    ASSUME NEW tl \in Seq(SUBSET Names), NEW ref \in Seq(SUBSET Names), NEW line,
           \A i \in 1 .. Len(line) : line[i].does # "tells",
           ErrorsComing(line, tl, ref)
    PROVE  tl = ref
<1> DEFINE a == Len(tl)
           b == Len(ref)
<1>1. PICK place \in [a + 1 .. b -> 1 .. Len(line)] : Placed(place, line, a + 1, ref)
  BY DEF ErrorsComing
<1>2. a \in Nat /\ b \in Nat /\ a <= b /\ \A k \in 1 .. a : tl[k] = ref[k]
  BY DEF ErrorsComing
<1>3. \A r \in a + 1 .. b : line[place[r]] = [does |-> "tells", names |-> ref[r]]
  BY <1>1 DEF Placed
<1> HIDE DEF a, b
<1>4. a = b
  <2>1. ~(a < b)
    <3> SUFFICES ASSUME a < b PROVE FALSE
      OBVIOUS
    <3>1. a + 1 \in a + 1 .. b
      BY <1>2
    <3>2. place[a + 1] \in 1 .. Len(line)
      BY <1>1, <3>1
    <3>3. line[place[a + 1]].does = "tells"
      <4>1. line[place[a + 1]] = [does |-> "tells", names |-> ref[a + 1]]
        BY <1>3, <3>1
      <4>2. QED
        BY <4>1
    <3>4. QED
      BY <3>2, <3>3
  <2>2. QED
    BY <1>2, <2>1
<1>5. QED
  BY <1>2, <1>4, SeqEqual DEF a, b

-----------------------------------------------------------------------------
\* What the steps do to the line and to what the user sees.
Puts(m, n) == m.does = "puts" /\ n \in m.names
Takes(m, n) == m.does = "takes" /\ \E x \in m.names : Folded[n] = Folded[x]

\* The service says m, and does it.
Said(m) ==
    \/ m.does = "nothing" /\ UNCHANGED <<tasks, removed, refused>>
    \/ /\ m.does = "tells"
       /\ refused' = Append(refused, m.names)
       /\ UNCHANGED <<tasks, removed>>
    \/ \E n \in Names :
          /\ m = [does |-> "puts", names |-> {n}]
          /\ tasks' = tasks \cup {n}
          /\ UNCHANGED <<removed, refused>>
    \/ \E n \in Names :
          /\ m = [does |-> "takes", names |-> {n}]
          /\ tasks' = tasks \ {n}
          /\ removed' = removed \cup {n}
          /\ UNCHANGED refused

LEMMA MeaningOfReply ==
    ASSUME NEW names \in SUBSET Names
    PROVE  /\ Reply("init", names) \in Messages /\ Meaning(Reply("init", names)) = [does |-> "puts", names |-> names]
           /\ Reply("add", names) \in Messages /\ Meaning(Reply("add", names)) = [does |-> "puts", names |-> names]
           /\ Reply("remove", names) \in Messages /\ Meaning(Reply("remove", names)) = [does |-> "takes", names |-> names]
           /\ Reply("progress", names) \in Messages /\ Meaning(Reply("progress", names)) = [does |-> "nothing", names |-> names]
           /\ Reply("-1", names) \in Messages /\ Meaning(Reply("-1", names)) = [does |-> "tells", names |-> names]
<1>1. /\ Does("init") = "puts" /\ Does("add") = "puts" /\ Does("remove") = "takes"
      /\ Does("progress") = "nothing" /\ Does("-1") = "tells"
  BY DEF Does
<1>2. ASSUME NEW w \in {"init", "add", "remove", "progress", "-1"}
      PROVE  Reply(w, names) \in Messages /\ Meaning(Reply(w, names)) = [does |-> Does(w), names |-> names]
  BY DEF Reply, Messages, Replies, Meaning
<1>3. QED
  BY <1>1, <1>2

\* Whatever the service says, asked or not, lengthens the line by it.
LEMMA SayLine ==
    ASSUME RoundInv, Serve \/ \E n \in Names : ReportProgress(n)
    PROVE  /\ UNCHANGED <<shown, told, link>> /\ link = "up"
           /\ \/ Line' = Line /\ UNCHANGED <<tasks, removed, refused>>
              \/ \E m \in Meanings : Line' = Append(Line, m) /\ Said(m)
<1>1. Serve => Take
  BY DEF Serve, AddTask, RemoveTask, Refuse, Ignore
<1>2. UNCHANGED <<shown, told, link, queue, backlog, wire>> /\ link = "up"
  BY <1>1 DEF Take, ReportProgress, allVars, vars, guiVars
<1>3. ASSUME NEW a \in Messages, unread' = Append(unread, a)
      PROVE  Line' = Append(Line, Meaning(a)) /\ Meaning(a) \in Meanings
  <2>1. LineOf(queue, backlog, Append(unread, a)) = Append(LineOf(queue, backlog, unread), Meaning(a))
    BY LineTyped, LineSent
  <2>2. QED
    BY <1>2, <1>3, <2>1, MeaningTyped DEF Line
<1>4. ASSUME NEW n \in Names, AddTask(n)
      PROVE  \E m \in Meanings : Line' = Append(Line, m) /\ Said(m)
  <2>1. {n} \in SUBSET Names
    OBVIOUS
  <2>2. Reply("add", {n}) \in Messages /\ Meaning(Reply("add", {n})) = [does |-> "puts", names |-> {n}]
    BY <2>1, MeaningOfReply
  <2>3. /\ tasks' = tasks \cup {n} /\ UNCHANGED <<removed, refused>>
        /\ unread' = Append(unread, Reply("add", {n}))
    BY <1>4 DEF AddTask, Answer
  <2>4. QED
    BY <1>3, <2>2, <2>3 DEF Said
<1>5. ASSUME NEW n \in Names, RemoveTask(n)
      PROVE  \E m \in Meanings : Line' = Append(Line, m) /\ Said(m)
  <2>1. {n} \in SUBSET Names
    OBVIOUS
  <2>2. /\ Reply("remove", {n}) \in Messages
        /\ Meaning(Reply("remove", {n})) = [does |-> "takes", names |-> {n}]
    BY <2>1, MeaningOfReply
  <2>3. /\ tasks' = tasks \ {n} /\ removed' = removed \cup {n} /\ UNCHANGED refused
        /\ unread' = Append(unread, Reply("remove", {n}))
    BY <1>5 DEF RemoveTask, Answer
  <2>4. QED
    BY <1>3, <2>2, <2>3 DEF Said
<1>6. ASSUME NEW n \in Names, ReportProgress(n)
      PROVE  \E m \in Meanings : Line' = Append(Line, m) /\ Said(m)
  <2>1. {n} \in SUBSET Names
    OBVIOUS
  <2>2. /\ Reply("progress", {n}) \in Messages
        /\ Meaning(Reply("progress", {n})).does = "nothing"
    BY <2>1, MeaningOfReply
  <2>3. /\ UNCHANGED <<tasks, removed, refused>>
        /\ unread' = Append(unread, Reply("progress", {n}))
    BY <1>6 DEF ReportProgress, Answer, serviceVars
  <2>4. QED
    BY <1>3, <2>2, <2>3 DEF Said
<1>7. CASE Refuse
  <2> DEFINE names == IF Requested = Garbled THEN {} ELSE {Requested[2]}
  <2>1. /\ UNCHANGED <<tasks, removed>>
        /\ unread' = Append(unread, Reply("-1", names))
        /\ refused' = Append(refused, names)
    BY <1>7 DEF Refuse, Answer
  <2>2. names \in SUBSET Names
    <3>1. served + 1 \in 1 .. Len(wire)
      BY <1>7, Typed DEF Refuse, Take
    <3>2. Requested \in Command \cup {Garbled}
      BY <3>1, Typed, ElementOfSeq DEF Requested
    <3>3. QED
      BY <3>2 DEF Command
  <2> HIDE DEF names
  <2>3. /\ Reply("-1", names) \in Messages
        /\ Meaning(Reply("-1", names)) = [does |-> "tells", names |-> names]
    BY <2>2, MeaningOfReply
  <2> DEFINE m == Meaning(Reply("-1", names))
  <2>4. m \in Meanings /\ Line' = Append(Line, m)
    BY <1>3, <2>1, <2>3
  <2>5. m.does = "tells" /\ m.names = names
    BY <2>3
  <2>6. Said(m)
    BY <2>1, <2>5 DEF Said
  <2> HIDE DEF m
  <2>7. QED
    BY <1>2, <2>4, <2>6
<1>8. \/ Line' = Line /\ UNCHANGED <<tasks, removed, refused>>
      \/ \E m \in Meanings : Line' = Append(Line, m) /\ Said(m)
  <2>1. ASSUME NEW n \in Names, AddTask(n) \/ RemoveTask(n) \/ ReportProgress(n)
        PROVE  \E m \in Meanings : Line' = Append(Line, m) /\ Said(m)
    BY <1>4, <1>5, <1>6, <2>1
  <2>2. CASE Ignore
    BY <1>2, <2>2 DEF Ignore, Line
  <2>3. QED
    BY <1>7, <2>1, <2>2 DEF Serve
<1>9. QED
  BY <1>2, <1>8

\* command_handler posts what means the same.
LEMMA PostsMeansSame ==
    ASSUME NEW c \in Replies
    PROVE  \E e \in Events : Posts(c) = <<e>> /\ Meaning(e) = Meaning(c)
<1>1. c.names \in SUBSET Names /\ c.what \in {"init", "add", "remove", "progress", "-1"}
  BY DEF Replies
<1>2. \A w \in {"fetched", "added", "deleted", "completion", "error"} :
         /\ Reply(w, c.names) \in Events
         /\ Meaning(Reply(w, c.names)) = [does |-> Does(w), names |-> c.names]
  BY <1>1 DEF Reply, Events, Meaning
<1>3. /\ Does("init") = Does("fetched") /\ Does("add") = Does("added")
      /\ Does("remove") = Does("deleted") /\ Does("progress") = Does("completion")
      /\ Does("-1") = Does("error")
  BY DEF Does
<1>4. Meaning(c) = [does |-> Does(c.what), names |-> c.names]
  BY DEF Meaning
<1> HIDE DEF Reply, Meaning, Does
<1>5. CASE c.what = "init"
  BY <1>2, <1>3, <1>4, <1>5 DEF Posts
<1>6. CASE c.what = "add"
  BY <1>2, <1>3, <1>4, <1>6 DEF Posts
<1>7. CASE c.what = "remove"
  BY <1>2, <1>3, <1>4, <1>7 DEF Posts
<1>8. CASE c.what = "progress"
  BY <1>2, <1>3, <1>4, <1>8 DEF Posts
<1>9. CASE c.what = "-1"
  BY <1>2, <1>3, <1>4, <1>9 DEF Posts
<1>10. QED
  BY <1>1, <1>5, <1>6, <1>7, <1>8, <1>9

LEMMA ReadLine ==
    ASSUME RoundInv, NEW k \in 0 .. Len(unread), k + Len(backlog) > 0, ReadSome(k)
    PROVE  Line' = Line /\ UNCHANGED <<shown, told, link, tasks, removed, refused>>
<1> DEFINE read == SubSeq(unread, 1, k)
           msg == backlog \o read
           rest == SubSeq(unread, k + 1, Len(unread))
           c == Head(msg)
<1>1. /\ backlog' = Tail(msg)
      /\ queue' = queue \o Posts(c)
      /\ unread' = rest
      /\ UNCHANGED <<shown, told, link, tasks, removed, refused>>
  BY DEF ReadSome, allVars, vars, serviceVars
<1>2. k \in Nat /\ k <= Len(unread) /\ unread \in Seq(Replies) /\ backlog \in Seq(Replies)
  BY Typed
<1>3. /\ read \in Seq(Replies) /\ Len(read) = k
      /\ rest \in Seq(Replies)
  BY <1>2
<1>4. unread = read \o rest
  <2>1. /\ 1 \in 1 .. Len(unread) + 1 /\ k \in 1 - 1 .. Len(unread)
        /\ Len(unread) \in k .. Len(unread)
    BY <1>2
  <2>2. read \o rest = SubSeq(unread, 1, Len(unread))
    BY <1>2, <2>1, ConcatAdjacentSubSeq
  <2>3. QED
    BY <1>2, <2>2, SubSeqFull
<1> HIDE DEF read, rest
<1>5. msg \in Seq(Replies) /\ msg # <<>>
  <2>1. msg \in Seq(Replies) /\ Len(msg) = Len(backlog) + k
    BY <1>2, <1>3, ConcatProperties
  <2>2. Len(backlog) \in Nat
    BY <1>2
  <2>3. QED
    BY <1>2, <2>1, <2>2
<1>6. c \in Replies
  <2> HIDE DEF msg
  <2>1. QED
    BY <1>5
<1> HIDE DEF msg
<1>7. PICK e \in Events : Posts(c) = <<e>> /\ Meaning(e) = Meaning(c)
  BY <1>6, PostsMeansSame
<1>8. /\ queue \in Seq(Messages) /\ backlog \in Seq(Messages) /\ unread \in Seq(Messages)
      /\ e \in Messages
  BY LineTyped DEF Messages
<1>9. read \in Seq(Messages) /\ rest \in Seq(Messages)
  BY <1>3 DEF Messages
<1>10. LineOf(queue \o <<e>>, Tail(msg), rest) = LineOf(queue, backlog, unread)
  <2>1. backlog \o read # <<>> /\ Meaning(e) = Meaning(Head(backlog \o read))
    BY <1>5, <1>7 DEF msg
  <2>2. LineOf(queue \o <<e>>, Tail(backlog \o read), rest) = LineOf(queue, backlog, unread)
    <3>1. LineOf(queue \o <<e>>, Tail(backlog \o read), rest) = LineOf(queue, backlog, read \o rest)
      BY <1>8, <1>9, <2>1, LineRead
    <3>2. QED
      BY <1>4, <3>1
  <2>3. QED
    BY <2>2 DEF msg
<1>11. QED
  BY <1>1, <1>7, <1>10 DEF Line

LEMMA GuiLine ==
    ASSUME RoundInv, Gui
    PROVE  /\ UNCHANGED <<link, tasks, removed, refused>>
           /\ Line # <<>> /\ Line' = Tail(Line)
           /\ Line[1].does = "tells" => told' = Append(told, Line[1].names)
           /\ Line[1].does # "tells" => told' = told
           /\ \A n \in Names : n \in shown' <=> Puts(Line[1], n) \/ (n \in shown /\ ~Takes(Line[1], n))
<1> DEFINE h == Head(queue)
           m == Meaning(h)
<1>1. /\ queue # <<>> /\ queue' = Tail(queue)
      /\ UNCHANGED <<link, tasks, removed, refused, backlog, unread>>
  BY DEF Gui, TableEvent, ErrorThrown, allVars, vars, serviceVars
<1>2. queue \in Seq(Events) /\ queue \in Seq(Messages) /\ backlog \in Seq(Messages) /\ unread \in Seq(Messages)
  BY Typed, LineTyped
<1>3. h \in Events
  BY <1>1, <1>2
<1>4. /\ LineOf(queue, backlog, unread) # <<>>
      /\ LineOf(queue, backlog, unread)[1] = m
      /\ LineOf(Tail(queue), backlog, unread) = Tail(LineOf(queue, backlog, unread))
  BY <1>1, <1>2, LineTaken
<1>5. Line # <<>> /\ Line' = Tail(Line) /\ Line[1] = m
  BY <1>1, <1>4 DEF Line
<1>6. shown \subseteq Names /\ h.names \subseteq Names
  BY <1>3 DEF RoundInv, RoundTypeOK, Events
<1>7. m = [does |-> Does(h.what), names |-> h.names]
  BY DEF Meaning
<1>8. m.does = Does(h.what) /\ m.names = h.names
  BY <1>7
<1>9. h.what \in {"fetched", "added", "deleted", "completion", "error"}
  BY <1>3 DEF Events
<1> HIDE DEF h, m
<1>10. CASE TableEvent
  <2>1. told' = told /\ h.what # "error"
    BY <1>10 DEF TableEvent, h
  <2>2. m.does # "tells"
    BY <1>8, <1>9, <2>1 DEF Does
  <2>3. CASE h.what \in {"fetched", "added"}
    <3>1. m.does = "puts"
      BY <1>8, <2>3 DEF Does
    <3>2. shown' = shown \cup m.names
      BY <1>8, <1>10, <2>3 DEF TableEvent, h
    <3>3. \A n \in Names : n \in shown' <=> Puts(m, n) \/ (n \in shown /\ ~Takes(m, n))
      BY <3>1, <3>2 DEF Puts, Takes
    <3>4. QED
      BY <1>1, <1>5, <2>1, <2>2, <3>3
  <2>4. CASE h.what = "deleted"
    <3>1. m.does = "takes"
      BY <1>8, <2>4 DEF Does
    <3>2. shown' = Without(shown, m.names)
      BY <1>8, <1>10, <2>4 DEF TableEvent, h
    <3>3. \A n \in Names : n \in shown' <=> Puts(m, n) \/ (n \in shown /\ ~Takes(m, n))
      BY <3>1, <3>2 DEF Puts, Takes, Without
    <3>4. QED
      BY <1>1, <1>5, <2>1, <2>2, <3>3
  <2>5. CASE h.what = "completion"
    <3>1. m.does = "nothing"
      BY <1>8, <2>5 DEF Does
    <3>2. shown' = shown
      BY <1>10, <2>5 DEF TableEvent, h
    <3>3. \A n \in Names : n \in shown' <=> Puts(m, n) \/ (n \in shown /\ ~Takes(m, n))
      BY <3>1, <3>2 DEF Puts, Takes
    <3>4. QED
      BY <1>1, <1>5, <2>1, <2>2, <3>3
  <2>6. QED
    BY <1>9, <2>1, <2>3, <2>4, <2>5
<1>11. CASE ErrorThrown
  <2>1. told' = Append(told, m.names) /\ shown' = shown /\ h.what = "error"
    BY <1>8, <1>11 DEF ErrorThrown, h
  <2>2. m.does = "tells"
    BY <1>8, <2>1 DEF Does
  <2>3. \A n \in Names : n \in shown' <=> Puts(m, n) \/ (n \in shown /\ ~Takes(m, n))
    BY <2>1, <2>2 DEF Puts, Takes
  <2>4. QED
    BY <1>1, <1>5, <2>1, <2>2, <2>3
<1>12. QED
  BY <1>10, <1>11 DEF Gui

\* The service greets the connection: there was nothing on the line.
LEMMA GreetLine ==
    ASSUME RoundInv, Greet
    PROVE  /\ Line = <<>>
           /\ Line' = Append(<<>>, [does |-> "puts", names |-> tasks])
           /\ [does |-> "puts", names |-> tasks] \in Meanings
           /\ link = "none" /\ link' = "up"
           /\ UNCHANGED <<shown, told, tasks, removed, refused>>
<1>1. /\ link = "none" /\ link' = "up"
      /\ unread' = <<Reply("init", tasks)>>
      /\ UNCHANGED <<tasks, removed, refused, backlog, queue, shown, told>>
  BY DEF Greet, ClientConnects, Connect, serviceVars, guiVars
<1>2. unread = <<>> /\ backlog = <<>> /\ queue = <<>>
  BY <1>1 DEF RoundInv, FreshLink, Quiet
<1>3. Line = <<>>
  BY <1>2, LineEmpty DEF Line
<1>4. tasks \in SUBSET Names
  BY DEF RoundInv, RoundTypeOK
<1> DEFINE a == Reply("init", tasks)
<1>5. a \in Messages /\ Meaning(a) = [does |-> "puts", names |-> tasks]
  BY <1>4, MeaningOfReply
<1> HIDE DEF a
<1>6. LineOf(queue, backlog, Append(unread, a)) = Append(LineOf(queue, backlog, unread), Meaning(a))
  BY <1>5, LineTyped, LineSent
<1>7. Append(unread, a) = unread'
  BY <1>1, <1>2 DEF a
<1>8. Line' = Append(<<>>, [does |-> "puts", names |-> tasks])
  BY <1>1, <1>3, <1>5, <1>6, <1>7 DEF Line
<1>9. [does |-> "puts", names |-> tasks] \in Meanings
  BY <1>4 DEF Meanings
<1>10. QED
  BY <1>1, <1>3, <1>8, <1>9

\* The other steps leave the line and what is seen as they are; none starts a connection.
LEMMA StillLine ==
    ASSUME RoundInv,
           \/ Live \/ Begin \/ Exit \/ Leave \/ Arrive \/ Accept \/ UNCHANGED roundVars
           \/ \E kind \in Kinds, n \in Names : Ask(kind, n)
    PROVE  /\ Line' = Line
           /\ UNCHANGED <<shown, told, tasks, removed, refused>>
           /\ link' = link \/ (link' = "down" /\ link = "up")
<1>1. UNCHANGED <<queue, backlog, unread, shown, told, tasks, removed, refused>>
  BY DEF Live, Begin, Exit, Leave, Arrive, Accept, Ask, roundVars, tripVars, serviceVars, guiVars
<1>2. link' = link \/ (link' = "down" /\ link = "up")
  <2>1. CASE Live \/ Begin \/ Exit \/ Leave \/ Arrive \/ UNCHANGED roundVars
    <3>1. Transmit \/ Disconnect \/ UNCHANGED vars
      BY <2>1 DEF Live, Begin, Exit, Leave, Arrive, roundVars, allVars, StartUp, StartReader, Quit,
             ReaderReturns, ReaderThrows, DestroyInstance, ExitProcess, ServiceLeaves,
             SendCompletes, LinkCloses
    <3>2. QED
      BY <3>1 DEF Transmit, Disconnect, vars
  <2>2. CASE Accept
    BY <2>2 DEF Accept, allVars, vars
  <2>3. ASSUME NEW kind \in Kinds, NEW n \in Names, Ask(kind, n)
        PROVE  link' = link
    BY <2>3 DEF Ask, UserNotifies, Notify
  <2>4. QED
    BY <2>1, <2>2, <2>3
<1>3. QED
  BY <1>1, <1>2 DEF Line

-----------------------------------------------------------------------------
\* When no answer is on its way, nothing on the line tells anything or changes a row.
LEMMA SettledLine ==
    ASSUME RoundInv, Settled
    PROVE  \A i \in 1 .. Len(Line) : Line[i].does = "nothing"
<1> DEFINE s == queue \o backlog
           t == s \o unread
<1>1. queue \in Seq(Messages) /\ backlog \in Seq(Messages) /\ unread \in Seq(Messages)
  BY LineTyped
<1>2. /\ \A i \in 1 .. Len(queue) : queue[i].what \in {"progress", "completion"}
      /\ \A i \in 1 .. Len(backlog) : backlog[i].what \in {"progress", "completion"}
      /\ \A i \in 1 .. Len(unread) : unread[i].what \in {"progress", "completion"}
  BY <1>1 DEF Settled, OnlyReports
<1>3. \A i \in 1 .. Len(s) : s[i].what \in {"progress", "completion"}
  <2>1. /\ Len(s) = Len(queue) + Len(backlog) /\ Len(queue) \in Nat /\ Len(backlog) \in Nat
        /\ \A i \in 1 .. Len(s) :
              s[i] = IF i <= Len(queue) THEN queue[i] ELSE backlog[i - Len(queue)]
    BY <1>1, ConcatProperties
  <2> HIDE DEF s
  <2>2. ASSUME NEW i \in 1 .. Len(s)
        PROVE  s[i].what \in {"progress", "completion"}
    <3>1. CASE i <= Len(queue)
      BY <1>2, <2>1, <3>1
    <3>2. CASE ~(i <= Len(queue))
      <4>1. i - Len(queue) \in 1 .. Len(backlog)
        BY <2>1, <3>2
      <4>2. QED
        BY <1>2, <2>1, <3>2, <4>1
    <3>3. QED
      BY <3>1, <3>2
  <2>3. QED
    BY <2>2
<1>4. s \in Seq(Messages)
  BY <1>1, ConcatProperties
<1> HIDE DEF s
<1>5. \A i \in 1 .. Len(t) : t[i].what \in {"progress", "completion"}
  <2>1. /\ Len(t) = Len(s) + Len(unread) /\ Len(s) \in Nat /\ Len(unread) \in Nat
        /\ \A i \in 1 .. Len(t) : t[i] = IF i <= Len(s) THEN s[i] ELSE unread[i - Len(s)]
    BY <1>1, <1>4, ConcatProperties
  <2> HIDE DEF t
  <2>2. ASSUME NEW i \in 1 .. Len(t)
        PROVE  t[i].what \in {"progress", "completion"}
    <3>1. CASE i <= Len(s)
      BY <1>3, <2>1, <3>1
    <3>2. CASE ~(i <= Len(s))
      <4>1. i - Len(s) \in 1 .. Len(unread)
        BY <2>1, <3>2
      <4>2. QED
        BY <1>2, <2>1, <3>2, <4>1
    <3>3. QED
      BY <3>1, <3>2
  <2>3. QED
    BY <2>2
<1>6. t \in Seq(Messages) /\ Line = Meant(t)
  BY <1>1, <1>4, ConcatProperties DEF Line, LineOf, s
<1> HIDE DEF t
<1>7. Len(Line) = Len(t) /\ \A i \in 1 .. Len(t) : Line[i] = Meaning(t[i])
  BY <1>6, MeantTyped
<1>8. \A i \in 1 .. Len(t) : Does(t[i].what) = "nothing"
  BY <1>5 DEF Does
<1>9. \A i \in 1 .. Len(t) : Meaning(t[i]).does = Does(t[i].what)
  BY DEF Meaning
<1> HIDE DEF Meaning
<1>10. QED
  BY <1>7, <1>8, <1>9

-----------------------------------------------------------------------------
\* Every refusal has been shown or is on its way to the error window, in order.
TellInv == ErrorsComing(Line, told, refused)

LEMMA LogsTyped ==
    ASSUME RoundInv
    PROVE  Line \in Seq(Meanings) /\ told \in Seq(SUBSET Names) /\ refused \in Seq(SUBSET Names)
BY LineTyped DEF RoundInv, RoundTypeOK

LEMMA TellInit == RoundInit => TellInv
<1> SUFFICES ASSUME RoundInit PROVE TellInv
  OBVIOUS
<1>1. Line = <<>> /\ told = <<>> /\ refused = <<>>
  BY LineEmpty DEF RoundInit, Line
<1> DEFINE place == [r \in 1 .. 0 |-> 1]
<1>2. /\ \A i : i \notin 1 .. 0
      /\ Len(<<>>) = 0 /\ 0 + 1 = 1 /\ 0 <= 0
  OBVIOUS
<1>3. place \in [1 .. 0 -> 1 .. 0]
  BY <1>2
<1> HIDE DEF place
<1>4. Placed(place, <<>>, 1, <<>>)
  BY <1>2, <1>3, Zenon DEF Placed
<1>5. ErrorsComing(<<>>, <<>>, <<>>)
  BY <1>2, <1>3, <1>4, Zenon DEF ErrorsComing
<1>6. QED
  BY <1>1, <1>5 DEF TellInv

\* What is said is told once it is a refusal.
LEMMA TellSaid ==
    ASSUME RoundInv, TellInv, told' = told, NEW m \in Meanings, Line' = Append(Line, m), Said(m)
    PROVE  TellInv'
<1>1. Line \in Seq(Meanings) /\ told \in Seq(SUBSET Names) /\ refused \in Seq(SUBSET Names)
  BY LogsTyped
<1> DEFINE first == Len(told) + 1
<1>2. /\ Len(told) <= Len(refused) /\ Len(told) \in Nat /\ Len(refused) \in Nat
      /\ first \in Nat /\ first \in 1 .. Len(refused) + 1
      /\ \A k \in 1 .. Len(told) : told[k] = refused[k]
  BY <1>1 DEF TellInv, ErrorsComing
<1>3. PICK place \in [first .. Len(refused) -> 1 .. Len(Line)] : Placed(place, Line, first, refused)
  BY DEF TellInv, ErrorsComing
<1>4. CASE m.does = "tells"
  <2>1. refused' = Append(refused, m.names) /\ m = [does |-> "tells", names |-> m.names]
        /\ m.names \in SUBSET Names
    BY <1>4 DEF Said, Meanings
  <2> DEFINE names == m.names
  <2> HIDE DEF names, first
  <2>2. \E later : Placed(later, Append(Line, [does |-> "tells", names |-> names]), first,
                          Append(refused, names))
    BY <1>1, <1>2, <1>3, <2>1, OneMoreTold DEF names
  <2>3. PICK later : Placed(later, Line', first, refused')
    BY <2>1, <2>2 DEF names
  <2>4. /\ Len(told) <= Len(refused')
        /\ \A k \in 1 .. Len(told) : told[k] = refused'[k]
    <3>1. Len(refused') = Len(refused) + 1 /\ \A k \in 1 .. Len(refused) : refused'[k] = refused[k]
      BY <1>1, <2>1
    <3>2. QED
      BY <1>2, <3>1
  <2>5. ErrorsComing(Line', told, refused')
    BY <2>3, <2>4 DEF ErrorsComing, Placed, first
  <2>6. QED
    BY <2>5 DEF TellInv
<1>5. CASE m.does # "tells"
  <2>1. refused' = refused
    BY <1>5 DEF Said
  <2> HIDE DEF first
  <2>2. Placed(place, Append(Line, m), first, refused)
    BY <1>1, <1>2, <1>3, <1>5, NothingToldYet
  <2>3. ErrorsComing(Line', told, refused)
    BY <1>2, <2>2 DEF ErrorsComing, Placed, first
  <2>4. QED
    BY <2>1, <2>3 DEF TellInv
<1>6. QED
  BY <1>4, <1>5

\* The GUI thread shows the oldest refusal.
LEMMA TellSeen ==
    ASSUME RoundInv, TellInv, refused' = refused, Line # <<>>, Line' = Tail(Line),
           Line[1].does = "tells" => told' = Append(told, Line[1].names),
           Line[1].does # "tells" => told' = told
    PROVE  TellInv'
<1>1. Line \in Seq(Meanings) /\ told \in Seq(SUBSET Names) /\ refused \in Seq(SUBSET Names)
  BY LogsTyped
<1> DEFINE first == Len(told) + 1
<1>2. /\ Len(told) <= Len(refused) /\ Len(told) \in Nat /\ Len(refused) \in Nat
      /\ first \in Nat /\ first >= 1
      /\ \A k \in 1 .. Len(told) : told[k] = refused[k]
  BY <1>1 DEF TellInv, ErrorsComing
<1>3. PICK place \in [first .. Len(refused) -> 1 .. Len(Line)] : Placed(place, Line, first, refused)
  BY DEF TellInv, ErrorsComing
<1>4. CASE Line[1].does = "tells"
  <2> HIDE DEF first
  <2>1. /\ first \in 1 .. Len(refused) /\ Line[1].names = refused[first]
        /\ \E later : Placed(later, Tail(Line), first + 1, refused)
    BY <1>1, <1>2, <1>3, <1>4, OldestTold
  <2>2. PICK later : Placed(later, Line', first + 1, refused)
    BY <2>1
  <2>3. told' = Append(told, refused[first]) /\ refused[first] \in SUBSET Names
    BY <1>1, <1>4, <2>1
  <2>4. /\ Len(told') = first
        /\ \A k \in 1 .. first : told'[k] = refused[k]
    <3>1. /\ Len(told') = Len(told) + 1 /\ told'[Len(told) + 1] = refused[first]
          /\ \A k \in 1 .. Len(told) : told'[k] = told[k]
      BY <1>1, <2>3
    <3>2. Len(told) + 1 = first
      BY DEF first
    <3>3. QED
      BY <1>2, <3>1, <3>2
  <2>5. first <= Len(refused)
    BY <1>2, <2>1
  <2>6. later \in [first + 1 .. Len(refused) -> 1 .. Len(Line')]
    BY <2>2 DEF Placed
  <2>7. ErrorsComing(Line', told', refused)
    BY <2>2, <2>4, <2>5, <2>6, Zenon DEF ErrorsComing
  <2>8. QED
    BY <2>7 DEF TellInv
<1>5. CASE Line[1].does # "tells"
  <2> HIDE DEF first
  <2>1. \E later : Placed(later, Tail(Line), first, refused)
    BY <1>1, <1>2, <1>3, <1>5, NothingTold
  <2>2. PICK later : Placed(later, Line', first, refused)
    BY <2>1
  <2>3. told' = told
    BY <1>5
  <2>4. ErrorsComing(Line', told, refused)
    BY <1>2, <2>2 DEF ErrorsComing, Placed, first
  <2>5. QED
    BY <2>3, <2>4 DEF TellInv
<1>6. QED
  BY <1>4, <1>5

LEMMA TellStep == RoundInv /\ TellInv /\ [RoundNext]_roundVars => TellInv'
<1> SUFFICES ASSUME RoundInv, TellInv, [RoundNext]_roundVars PROVE TellInv'
  OBVIOUS
<1>1. ASSUME \/ Live \/ Begin \/ Exit \/ Leave \/ Arrive \/ Accept \/ UNCHANGED roundVars
             \/ \E kind \in Kinds, n \in Names : Ask(kind, n)
      PROVE  TellInv'
  <2>1. Line' = Line /\ told' = told /\ refused' = refused
    BY <1>1, StillLine
  <2>2. QED
    BY <2>1 DEF TellInv
<1>2. CASE Greet
  <2> DEFINE m == [does |-> "puts", names |-> tasks]
  <2>1. /\ Line = <<>> /\ Line' = Append(<<>>, m) /\ m \in Meanings
        /\ told' = told /\ refused' = refused
    BY <1>2, GreetLine
  <2>2. m.does # "tells"
    OBVIOUS
  <2> HIDE DEF m
  <2>3. Line \in Seq(Meanings) /\ told \in Seq(SUBSET Names) /\ refused \in Seq(SUBSET Names)
    BY LogsTyped
  <2> DEFINE first == Len(told) + 1
  <2>4. PICK place \in [first .. Len(refused) -> 1 .. Len(Line)] : Placed(place, Line, first, refused)
    BY DEF TellInv, ErrorsComing
  <2>5. first \in Nat
    BY <2>3
  <2> HIDE DEF first
  <2>6. Placed(place, Append(Line, m), first, refused)
    BY <2>1, <2>2, <2>3, <2>4, <2>5, NothingToldYet
  <2>7. Placed(place, Line', first, refused)
    BY <2>1, <2>6
  <2>8. ErrorsComing(Line', told, refused)
    BY <2>7 DEF TellInv, ErrorsComing, Placed, first
  <2>9. QED
    BY <2>1, <2>8 DEF TellInv
<1>3. CASE Serve \/ \E n \in Names : ReportProgress(n)
  <2>1. told' = told
    BY <1>3, SayLine
  <2>2. CASE Line' = Line /\ refused' = refused
    BY <2>1, <2>2 DEF TellInv
  <2>3. ASSUME NEW m \in Meanings, Line' = Append(Line, m), Said(m)
        PROVE  TellInv'
    BY <2>1, <2>3, TellSaid
  <2>4. QED
    BY <1>3, <2>2, <2>3, SayLine
<1>4. CASE StartReading
  <2>1. PICK k \in 0 .. Len(unread) : k + Len(backlog) > 0 /\ ReadSome(k)
    BY <1>4 DEF StartReading
  <2>2. Line' = Line /\ told' = told /\ refused' = refused
    BY <2>1, ReadLine
  <2>3. QED
    BY <2>2 DEF TellInv
<1>5. CASE Gui
  <2>1. /\ refused' = refused /\ Line # <<>> /\ Line' = Tail(Line)
        /\ Line[1].does = "tells" => told' = Append(told, Line[1].names)
        /\ Line[1].does # "tells" => told' = told
    BY <1>5, GuiLine
  <2>2. QED
    BY <2>1, TellSeen
<1>6. QED
  BY <1>1, <1>2, <1>3, <1>4, <1>5 DEF RoundNext

\* No refusal is lost, shown twice or out of order on its way to the error window:
\* those shown are the first ones, and the others are on the line in order.
THEOREM ErrorsAreOnTheWay == RoundSpec => []TellInv
<1>1. RoundInit => RoundInv /\ TellInv
  BY InitRoundInv, TellInit
<1>2. (RoundInv /\ TellInv) /\ [RoundNext]_roundVars => (RoundInv /\ TellInv)'
  BY RoundStep, TellStep
<1>3. QED
  BY <1>1, <1>2, PTL DEF RoundSpec

LEMMA ToldAtRest ==
    ASSUME RoundInv, TellInv, Settled
    PROVE  told = refused
<1>1. \A i \in 1 .. Len(Line) : Line[i].does # "tells"
  BY SettledLine
<1>2. ErrorsComing(Line, told, refused)
  BY DEF TellInv
<1>3. QED
  BY <1>1, <1>2, LogsTyped, AllTold

\* When no answer is on its way the user has been told of each refusal, in order.
THEOREM ErrorsAreTold == RoundSpec => []RestToldErrors
<1>1. RoundInv /\ TellInv => RestToldErrors
  BY ToldAtRest DEF RestToldErrors
<1>2. QED
  BY <1>1, RoundInvariance, ErrorsAreOnTheWay, PTL

-----------------------------------------------------------------------------
\* What the table will show of a task n when the line has been handled: its row will be
\* gone, or it will be there to stay.
Gone(line, rows, n) ==
    /\ n \in rows => \E j \in 1 .. Len(line) : Takes(line[j], n)
    /\ \A i \in 1 .. Len(line) :
          Puts(line[i], n) => \E j \in 1 .. Len(line) : i < j /\ Takes(line[j], n)

Stays(line, rows, n) ==
    \/ n \in rows /\ \A j \in 1 .. Len(line) : ~Takes(line[j], n)
    \/ \E i \in 1 .. Len(line) :
          /\ Puts(line[i], n)
          /\ \A j \in 1 .. Len(line) : i < j => ~Takes(line[j], n)

\* A task that is gone will have no row, but those of the QML file; one that is there
\* will have one, unless another one that is gone took it along.
SeenInv ==
    /\ \A n \in Names \ (tasks \cup WrittenRows) : Gone(Line, shown, n)
    /\ link # "none" =>
          \A n \in tasks : Stays(Line, shown, n) \/ \E m \in removed \ {n} : Folded[m] = Folded[n]

\* What is put on the line last decides.
LEMMA SaidLast ==
    ASSUME NEW line \in Seq(Meanings), NEW m \in Meanings, NEW rows, NEW n
    PROVE  /\ Takes(m, n) => Gone(Append(line, m), rows, n)
           /\ Puts(m, n) => Stays(Append(line, m), rows, n)
           /\ ~Puts(m, n) /\ Gone(line, rows, n) => Gone(Append(line, m), rows, n)
           /\ ~Takes(m, n) /\ Stays(line, rows, n) => Stays(Append(line, m), rows, n)
<1> DEFINE l == Len(line)
           line2 == Append(line, m)
<1>1. /\ l \in Nat /\ Len(line2) = l + 1
      /\ \A i \in 1 .. l : line2[i] = line[i]
      /\ line2[l + 1] = m
  OBVIOUS
<1> HIDE DEF l, line2
<1>2. /\ l + 1 \in 1 .. l + 1
      /\ \A i \in 1 .. l : i \in 1 .. l + 1 /\ i < l + 1
      /\ \A i \in 1 .. l + 1 : i \in 1 .. l \/ i = l + 1
      /\ ~(l + 1 < l + 1)
      /\ \A i \in 1 .. l : ~(l + 1 < i)
  BY <1>1
<1>3. ~(Puts(m, n) /\ Takes(m, n))
  BY DEF Puts, Takes
<1>4. ASSUME Takes(m, n) PROVE Gone(line2, rows, n)
  <2>1. \A i \in 1 .. l + 1 : Puts(line2[i], n) => i < l + 1
    BY <1>1, <1>2, <1>3, <1>4
  <2>2. Takes(line2[l + 1], n)
    BY <1>1, <1>4
  <2>3. QED
    BY <1>1, <1>2, <2>1, <2>2 DEF Gone
<1>5. ASSUME Puts(m, n) PROVE Stays(line2, rows, n)
  <2>1. Puts(line2[l + 1], n)
    BY <1>1, <1>5
  <2>2. \A j \in 1 .. l + 1 : ~(l + 1 < j)
    BY <1>2
  <2>3. QED
    BY <1>1, <1>2, <2>1, <2>2 DEF Stays
<1>6. ASSUME ~Puts(m, n), Gone(line, rows, n) PROVE Gone(line2, rows, n)
  <2>1. n \in rows => \E j \in 1 .. l + 1 : Takes(line2[j], n)
    BY <1>1, <1>2, <1>6 DEF Gone, l
  <2>2. ASSUME NEW i \in 1 .. l + 1, Puts(line2[i], n)
        PROVE  \E j \in 1 .. l + 1 : i < j /\ Takes(line2[j], n)
    <3>1. i \in 1 .. l /\ Puts(line[i], n)
      BY <1>1, <1>2, <1>6, <2>2
    <3>2. PICK j \in 1 .. l : i < j /\ Takes(line[j], n)
      BY <1>6, <3>1 DEF Gone, l
    <3>3. QED
      BY <1>1, <1>2, <3>2
  <2>3. QED
    BY <1>1, <2>1, <2>2 DEF Gone
<1>7. ASSUME ~Takes(m, n), Stays(line, rows, n) PROVE Stays(line2, rows, n)
  <2>1. CASE n \in rows /\ \A j \in 1 .. l : ~Takes(line[j], n)
    <3>1. \A j \in 1 .. l + 1 : ~Takes(line2[j], n)
      BY <1>1, <1>2, <1>7, <2>1
    <3>2. QED
      BY <1>1, <2>1, <3>1 DEF Stays
  <2>2. CASE \E i \in 1 .. l : Puts(line[i], n) /\ \A j \in 1 .. l : i < j => ~Takes(line[j], n)
    <3>1. PICK i \in 1 .. l : Puts(line[i], n) /\ \A j \in 1 .. l : i < j => ~Takes(line[j], n)
      BY <2>2
    <3>2. \A j \in 1 .. l + 1 : i < j => ~Takes(line2[j], n)
      BY <1>1, <1>2, <1>7, <3>1
    <3>3. i \in 1 .. l + 1 /\ Puts(line2[i], n)
      BY <1>1, <1>2, <3>1
    <3>4. QED
      BY <1>1, <3>2, <3>3 DEF Stays
  <2>3. QED
    BY <1>7, <2>1, <2>2 DEF Stays, l
<1>8. QED
  BY <1>4, <1>5, <1>6, <1>7 DEF line2

\* The first thing on the line is done to the rows.
LEMMA SeenFirst ==
    ASSUME NEW line \in Seq(Meanings), line # <<>>, NEW rows, NEW rows2, NEW n,
           n \in rows2 <=> Puts(line[1], n) \/ (n \in rows /\ ~Takes(line[1], n))
    PROVE  /\ Gone(line, rows, n) => Gone(Tail(line), rows2, n)
           /\ Stays(line, rows, n) => Stays(Tail(line), rows2, n)
<1> DEFINE l == Len(line)
           line2 == Tail(line)
<1>1. /\ l \in Nat /\ l >= 1 /\ Len(line2) = l - 1
      /\ \A i \in 1 .. l - 1 : line2[i] = line[i + 1]
  OBVIOUS
<1> HIDE DEF l, line2
<1>2. ASSUME NEW j \in 1 .. l, j # 1
      PROVE  j - 1 \in 1 .. l - 1 /\ line2[j - 1] = line[j]
  BY <1>1, <1>2
<1>3. 1 \in 1 .. l
  BY <1>1
<1>4. ~(Puts(line[1], n) /\ Takes(line[1], n))
  BY DEF Puts, Takes
<1>5. ASSUME Gone(line, rows, n) PROVE Gone(line2, rows2, n)
  <2>1. /\ n \in rows => \E j \in 1 .. l : Takes(line[j], n)
        /\ \A i \in 1 .. l : Puts(line[i], n) => \E j \in 1 .. l : i < j /\ Takes(line[j], n)
    BY <1>5 DEF Gone, l
  <2>2. ASSUME n \in rows2 PROVE \E j \in 1 .. l - 1 : Takes(line2[j], n)
    <3>1. PICK j \in 1 .. l : Takes(line[j], n) /\ j # 1
      <4>1. CASE Puts(line[1], n)
        BY <1>3, <2>1, <4>1
      <4>2. CASE n \in rows /\ ~Takes(line[1], n)
        BY <2>1, <4>2
      <4>3. QED
        BY <2>2, <4>1, <4>2
    <3>2. QED
      BY <1>2, <3>1
  <2>3. ASSUME NEW i \in 1 .. l - 1, Puts(line2[i], n)
        PROVE  \E j \in 1 .. l - 1 : i < j /\ Takes(line2[j], n)
    <3>1. i + 1 \in 1 .. l /\ Puts(line[i + 1], n)
      BY <1>1, <2>3
    <3>2. PICK j \in 1 .. l : i + 1 < j /\ Takes(line[j], n)
      BY <2>1, <3>1
    <3>3. j # 1 /\ i < j - 1
      BY <1>1, <3>2
    <3>4. QED
      BY <1>2, <3>2, <3>3
  <2>4. QED
    BY <1>1, <2>2, <2>3 DEF Gone
<1>6. ASSUME Stays(line, rows, n) PROVE Stays(line2, rows2, n)
  <2>1. ASSUME n \in rows2, \A j \in 1 .. l : 1 < j => ~Takes(line[j], n)
        PROVE  Stays(line2, rows2, n)
    <3>1. ASSUME NEW j \in 1 .. l - 1 PROVE ~Takes(line2[j], n)
      <4>1. j + 1 \in 1 .. l /\ 1 < j + 1 /\ line2[j] = line[j + 1]
        BY <1>1
      <4>2. QED
        BY <2>1, <4>1
    <3>2. QED
      BY <1>1, <2>1, <3>1 DEF Stays
  <2>2. CASE n \in rows /\ \A j \in 1 .. l : ~Takes(line[j], n)
    BY <1>3, <2>1, <2>2
  <2>3. ASSUME NEW i \in 1 .. l, Puts(line[i], n), \A j \in 1 .. l : i < j => ~Takes(line[j], n)
        PROVE  Stays(line2, rows2, n)
    <3>1. CASE i = 1
      BY <2>1, <2>3, <3>1
    <3>2. CASE i # 1
      <4>1. i - 1 \in 1 .. l - 1 /\ Puts(line2[i - 1], n)
        BY <1>2, <2>3, <3>2
      <4>2. ASSUME NEW j \in 1 .. l - 1, i - 1 < j PROVE ~Takes(line2[j], n)
        <5>1. j + 1 \in 1 .. l /\ i < j + 1 /\ line2[j] = line[j + 1]
          BY <1>1, <4>2
        <5>2. QED
          BY <2>3, <5>1
      <4>3. QED
        BY <1>1, <4>1, <4>2 DEF Stays
    <3>3. QED
      BY <3>1, <3>2
  <2>4. QED
    BY <1>6, <2>2, <2>3 DEF Stays, l
<1>7. QED
  BY <1>5, <1>6 DEF line2

\* With nothing on the line that changes a row the rows are what they are.
LEMMA SeenAtRest ==
    ASSUME NEW rows, NEW n, NEW line, \A i \in 1 .. Len(line) : line[i].does = "nothing"
    PROVE  /\ Gone(line, rows, n) => n \notin rows
           /\ Stays(line, rows, n) => n \in rows
<1>1. \A i \in 1 .. Len(line) : ~Puts(line[i], n) /\ ~Takes(line[i], n)
  BY DEF Puts, Takes
<1>2. QED
  BY <1>1, Zenon DEF Gone, Stays

LEMMA SeenInit == RoundInit => SeenInv
<1> SUFFICES ASSUME RoundInit PROVE SeenInv
  OBVIOUS
<1>1. Line = <<>> /\ shown = Placeholders /\ link = "none" /\ removed = {}
  BY LineEmpty DEF RoundInit, Line, LifeInit, Init
<1>2. \A i : i \notin 1 .. Len(<<>>)
  OBVIOUS
<1>3. \A n : n \notin Placeholders => Gone(<<>>, Placeholders, n)
  BY <1>2, Zenon DEF Gone
<1>4. WrittenRows = Placeholders
  BY <1>1 DEF WrittenRows
<1>5. \A n \in Names \ (tasks \cup WrittenRows) : Gone(Line, shown, n)
  <2> SUFFICES ASSUME NEW n \in Names \ (tasks \cup WrittenRows) PROVE Gone(Line, shown, n)
    OBVIOUS
  <2>1. n \notin Placeholders
    BY <1>4
  <2>2. QED
    BY <1>1, <1>3, <2>1, Zenon
<1>6. QED
  BY <1>1, <1>5, Zenon DEF SeenInv

\* What the service does it says, and so it will be seen.
LEMMA SeenSaid ==
    ASSUME RoundInv, SeenInv, UNCHANGED <<shown, link>>, link = "up",
           NEW m \in Meanings, Line' = Append(Line, m), Said(m)
    PROVE  SeenInv'
<1>1. Line \in Seq(Meanings) /\ tasks \subseteq Names
  BY LogsTyped DEF RoundInv, RoundTypeOK
<1>2. /\ link' # "none"
      /\ \A n \in Names \ (tasks \cup WrittenRows) : Gone(Line, shown, n)
      /\ \A n \in tasks : Stays(Line, shown, n) \/ \E x \in removed \ {n} : Folded[x] = Folded[n]
  BY DEF SeenInv
<1>3. \A n : /\ Takes(m, n) => Gone(Line', shown', n)
             /\ Puts(m, n) => Stays(Line', shown', n)
             /\ ~Puts(m, n) /\ Gone(Line, shown, n) => Gone(Line', shown', n)
             /\ ~Takes(m, n) /\ Stays(Line, shown, n) => Stays(Line', shown', n)
  <2> SUFFICES ASSUME NEW n
               PROVE  /\ Takes(m, n) => Gone(Append(Line, m), shown, n)
                      /\ Puts(m, n) => Stays(Append(Line, m), shown, n)
                      /\ ~Puts(m, n) /\ Gone(Line, shown, n) => Gone(Append(Line, m), shown, n)
                      /\ ~Takes(m, n) /\ Stays(Line, shown, n) => Stays(Append(Line, m), shown, n)
    BY Zenon
  <2>1. QED
    BY <1>1, SaidLast
<1> DEFINE Comes(n) == Gone(Line', shown', n)
           Remains(n) == Stays(Line', shown', n)
           Was(n) == Gone(Line, shown, n)
           Stood(n) == Stays(Line, shown, n)
<1> HIDE DEF Comes, Remains, Was, Stood
<1>4. /\ \A n \in Names \ (tasks \cup WrittenRows) : Was(n)
      /\ \A n \in tasks : Stood(n) \/ \E x \in removed \ {n} : Folded[x] = Folded[n]
      /\ \A n : /\ Takes(m, n) => Comes(n)
                /\ Puts(m, n) => Remains(n)
                /\ ~Puts(m, n) /\ Was(n) => Comes(n)
                /\ ~Takes(m, n) /\ Stood(n) => Remains(n)
  BY <1>2, <1>3, Zenon DEF Comes, Remains, Was, Stood
<1> DEFINE Goal == /\ \A n \in Names \ (tasks' \cup WrittenRows') : Comes(n)
                   /\ \A n \in tasks' : Remains(n) \/ \E x \in removed' \ {n} : Folded[x] = Folded[n]
<1>5. CASE m.does \in {"nothing", "tells"} /\ UNCHANGED <<tasks, removed>>
  <2>1. (\A n : ~Puts(m, n) /\ ~Takes(m, n)) /\ WrittenRows' = WrittenRows
    BY <1>5 DEF Puts, Takes, WrittenRows
  <2>2. Goal
    BY <1>4, <1>5, <2>1
  <2>3. QED
    BY <1>2, <2>2, Zenon DEF SeenInv, Comes, Remains
<1>6. ASSUME NEW t \in Names, m = [does |-> "puts", names |-> {t}], tasks' = tasks \cup {t}, removed' = removed
      PROVE  SeenInv'
  <2>1. (\A n : ~Takes(m, n) /\ (Puts(m, n) <=> n = t)) /\ WrittenRows' = WrittenRows
    BY <1>6 DEF Puts, Takes, WrittenRows
  <2>2. Goal
    BY <1>4, <1>6, <2>1
  <2>3. QED
    BY <1>2, <2>2, Zenon DEF SeenInv, Comes, Remains
<1>7. ASSUME NEW t \in Names, m = [does |-> "takes", names |-> {t}], tasks' = tasks \ {t},
             removed' = removed \cup {t}
      PROVE  SeenInv'
  <2>1. /\ \A n : ~Puts(m, n) /\ (Takes(m, n) <=> Folded[n] = Folded[t])
        /\ \A p \in WrittenRows : p \in WrittenRows' \/ Folded[p] = Folded[t]
    BY <1>7 DEF Puts, Takes, WrittenRows
  <2>2. Goal
    BY <1>4, <1>7, <2>1
  <2>3. QED
    BY <1>2, <2>2, Zenon DEF SeenInv, Comes, Remains
<1>8. QED
  BY <1>5, <1>6, <1>7 DEF Said

LEMMA SeenStep == RoundInv /\ SeenInv /\ [RoundNext]_roundVars => SeenInv'
<1> SUFFICES ASSUME RoundInv, SeenInv, [RoundNext]_roundVars PROVE SeenInv'
  OBVIOUS
<1>1. ASSUME \/ Live \/ Begin \/ Exit \/ Leave \/ Arrive \/ Accept \/ UNCHANGED roundVars
             \/ \E kind \in Kinds, n \in Names : Ask(kind, n)
      PROVE  SeenInv'
  <2>1. Line' = Line /\ UNCHANGED <<shown, tasks, removed>>
        /\ (link' = link \/ (link' = "down" /\ link = "up"))
    BY <1>1, StillLine
  <2>2. (link' # "none" => link # "none") /\ WrittenRows' = WrittenRows
    BY <2>1 DEF WrittenRows
  <2>3. QED
    BY <2>1, <2>2 DEF SeenInv
<1>2. CASE Greet
  <2> DEFINE m == [does |-> "puts", names |-> tasks]
  <2>1. /\ Line = <<>> /\ Line' = Append(<<>>, m) /\ m \in Meanings
        /\ link = "none" /\ link' = "up" /\ UNCHANGED <<shown, tasks, removed>>
    BY <1>2, GreetLine
  <2>2. \A n : Puts(m, n) <=> n \in tasks
    BY DEF Puts
  <2> HIDE DEF m
  <2>3. <<>> \in Seq(Meanings)
    OBVIOUS
  <2>4. \A n : /\ Puts(m, n) => Stays(Line', shown', n)
               /\ ~Puts(m, n) /\ Gone(Line, shown, n) => Gone(Line', shown', n)
    BY <2>1, <2>3, SaidLast
  <2>5. /\ \A n \in Names \ (tasks \cup WrittenRows) : Gone(Line, shown, n)
        /\ WrittenRows' = WrittenRows
    BY <2>1 DEF SeenInv, WrittenRows
  <2>6. /\ \A n \in Names \ (tasks' \cup WrittenRows') : Gone(Line', shown', n)
        /\ \A n \in tasks' : Stays(Line', shown', n)
    BY <2>1, <2>2, <2>4, <2>5, Zenon
  <2>7. QED
    BY <2>1, <2>6, Zenon DEF SeenInv
<1>3. CASE Serve \/ \E n \in Names : ReportProgress(n)
  <2>1. UNCHANGED <<shown, link>> /\ link = "up"
    BY <1>3, SayLine
  <2>2. CASE Line' = Line /\ UNCHANGED <<tasks, removed, refused>>
    BY <2>1, <2>2 DEF SeenInv, WrittenRows
  <2>3. ASSUME NEW m \in Meanings, Line' = Append(Line, m), Said(m)
        PROVE  SeenInv'
    BY <2>1, <2>3, SeenSaid
  <2>4. QED
    BY <1>3, <2>2, <2>3, SayLine
<1>4. CASE StartReading
  <2>1. PICK k \in 0 .. Len(unread) : k + Len(backlog) > 0 /\ ReadSome(k)
    BY <1>4 DEF StartReading
  <2>2. Line' = Line /\ UNCHANGED <<shown, link, tasks, removed>>
    BY <2>1, ReadLine
  <2>3. WrittenRows' = WrittenRows
    BY <2>2 DEF WrittenRows
  <2>4. QED
    BY <2>2, <2>3 DEF SeenInv
<1>5. CASE Gui
  <2>1. /\ UNCHANGED <<link, tasks, removed>> /\ Line # <<>> /\ Line' = Tail(Line)
        /\ \A n \in Names : n \in shown' <=> Puts(Line[1], n) \/ (n \in shown /\ ~Takes(Line[1], n))
    BY <1>5, GuiLine
  <2>2. link # "none"
    <3>1. queue # <<>>
      BY <1>5 DEF Gui, TableEvent, ErrorThrown
    <3>2. QED
      BY <3>1 DEF RoundInv, FreshLink, Quiet
  <2>3. Line \in Seq(Meanings) /\ tasks \subseteq Names
    BY LogsTyped DEF RoundInv, RoundTypeOK
  <2>4. ASSUME NEW n \in Names
        PROVE  /\ Gone(Line, shown, n) => Gone(Line', shown', n)
               /\ Stays(Line, shown, n) => Stays(Line', shown', n)
    <3>1. /\ Gone(Line, shown, n) => Gone(Tail(Line), shown', n)
          /\ Stays(Line, shown, n) => Stays(Tail(Line), shown', n)
      BY <2>1, <2>3, SeenFirst
    <3>2. QED
      BY <2>1, <3>1
  <2>5. \A n \in Names \ (tasks' \cup WrittenRows') : Gone(Line', shown', n)
    <3>1. WrittenRows' = WrittenRows
      BY <2>1 DEF WrittenRows
    <3>2. QED
      BY <2>1, <2>4, <3>1 DEF SeenInv
  <2>6. \A n \in tasks' : Stays(Line', shown', n) \/ \E x \in removed' \ {n} : Folded[x] = Folded[n]
    <3> SUFFICES ASSUME NEW n \in tasks
                 PROVE  Stays(Line', shown', n) \/ \E x \in removed \ {n} : Folded[x] = Folded[n]
      BY <2>1
    <3>1. n \in Names
      BY <2>3
    <3>2. QED
      BY <2>2, <2>4, <3>1 DEF SeenInv
  <2>7. link' # "none"
    BY <2>1, <2>2
  <2>8. QED
    BY <2>5, <2>6, <2>7, Zenon DEF SeenInv
<1>6. QED
  BY <1>1, <1>2, <1>3, <1>4, <1>5 DEF RoundNext

\* Whatever the user does in the meantime, a row that is neither a task nor one of the QML
\* file has its removal on the way, after all that would put it there; a task has its row,
\* or it is on its way, unless a removal took it with a name that differs in case alone.
THEOREM ViewIsOnTheWay == RoundSpec => []SeenInv
<1>1. RoundInit => RoundInv /\ SeenInv
  BY InitRoundInv, SeenInit
<1>2. (RoundInv /\ SeenInv) /\ [RoundNext]_roundVars => (RoundInv /\ SeenInv)'
  BY RoundStep, SeenStep
<1>3. QED
  BY <1>1, <1>2, PTL DEF RoundSpec

LEMMA ShownAtRest ==
    ASSUME RoundInv, SeenInv, Settled, link # "none"
    PROVE  /\ shown \subseteq tasks \cup WrittenRows
           /\ \A n \in tasks \ shown : \E m \in removed \ {n} : Folded[m] = Folded[n]
<1>1. \A i \in 1 .. Len(Line) : Line[i].does = "nothing"
  BY SettledLine
<1>2. \A n : (Gone(Line, shown, n) => n \notin shown) /\ (Stays(Line, shown, n) => n \in shown)
  BY <1>1, SeenAtRest
<1>3. shown \subseteq Names
  BY DEF RoundInv, RoundTypeOK
<1>4. shown \subseteq tasks \cup WrittenRows
  BY <1>2, <1>3 DEF SeenInv
<1>5. \A n \in tasks \ shown : \E m \in removed \ {n} : Folded[m] = Folded[n]
  BY <1>2 DEF SeenInv
<1>6. QED
  BY <1>4, <1>5

\* When no answer is on its way every row is a task or one of the QML file, and a task
\* without a row lost it with another one whose name differs in case alone.
THEOREM ViewIsOfTasks == RoundSpec => []RestShowsTasks
<1>1. RoundInv /\ SeenInv => RestShowsTasks
  BY ShownAtRest DEF RestShowsTasks
<1>2. QED
  BY <1>1, RoundInvariance, ViewIsOnTheWay, PTL

-----------------------------------------------------------------------------
\* For a user who waits there is one matter at most: a request not served, a refusal
\* not seen, or a window not closed.
Matters(p, w, s, r, t, m) == p + (w - s) + (r - t) + (IF m THEN 1 ELSE 0)

OneMatter ==
    ~hasty =>
        /\ Matters(Len(pending), Len(wire), served, Len(refused), Len(told), modal) <= 1
        /\ ~replaced

PacedInv == OneMatter /\ PacedAsksOfTasks

LEMMA PacedInit == RoundInit => PacedInv
BY DEF RoundInit, LifeInit, Init, PacedInv, OneMatter, Matters, PacedAsksOfTasks, Ahead

LEMMA Logged ==
    ASSUME RoundInv, TellInv
    PROVE  Len(told) \in Nat /\ Len(refused) \in Nat /\ Len(told) <= Len(refused)
BY LogsTyped DEF TellInv, ErrorsComing

\* As long as the user waits at most one request has not been served.
LEMMA OneRequest ==
    ASSUME RoundInv, TellInv, OneMatter, ~hasty
    PROVE  /\ Len(pending) + (Len(wire) - served) <= 1
           /\ link = "up" => Len(accepted) <= served + 1
<1> DEFINE p == Len(pending)
           w == Len(wire)
           r == Len(refused)
           t == Len(told)
<1>1. /\ p \in Nat /\ w \in Nat /\ served \in Nat /\ served <= w
      /\ r \in Nat /\ t \in Nat /\ t <= r /\ Len(accepted) \in Nat
  BY Counted, Logged
<1>2. p + (w - served) + (r - t) + (IF modal THEN 1 ELSE 0) <= 1
  BY DEF OneMatter, Matters
<1>3. link = "up" => Len(accepted) = w + p
  BY DEF RoundInv, LifeInv, Inv, PendingIsRest
<1> HIDE DEF p, w, r, t
<1>4. p + (w - served) <= 1
  BY <1>1, <1>2
<1>5. link = "up" => Len(accepted) <= served + 1
  BY <1>1, <1>3, <1>4
<1>6. QED
  BY <1>4, <1>5 DEF p, w

\* A step of the process leaves the matters and the requests as they are, or fewer.
LEMMA PacedOnward ==
    ASSUME RoundInv, PacedInv, Onward, UNCHANGED tripVars
    PROVE  PacedInv'
<1>1. UNCHANGED <<tasks, served, removed, refused, modal, told, replaced, hasty>>
  BY DEF tripVars, serviceVars, guiVars, paceVars
<1>2. OneMatter'
  <2> DEFINE p == Len(pending)
             w == Len(wire)
             r == Len(refused)
             t == Len(told)
  <2> SUFFICES ASSUME ~hasty
               PROVE  Matters(Len(pending'), Len(wire'), served, r, t, modal) <= 1 /\ ~replaced
    BY <1>1 DEF OneMatter
  <2>1. /\ p \in Nat /\ w \in Nat /\ served \in Nat /\ r \in Nat /\ t \in Nat
        /\ Len(wire') \in Nat /\ Len(pending') \in Nat /\ Len(wire') + Len(pending') <= w + p
    BY Counted, LogsTyped DEF Onward
  <2>2. p + (w - served) + (r - t) + (IF modal THEN 1 ELSE 0) <= 1 /\ ~replaced
    BY DEF PacedInv, OneMatter, Matters
  <2> HIDE DEF p, w, r, t
  <2>3. QED
    BY <2>1, <2>2 DEF Matters
<1>3. Ahead' \subseteq Ahead /\ accepted' = accepted /\ WrittenRows' = WrittenRows
  BY <1>1 DEF Ahead, Onward, WrittenRows
<1>4. PacedAsksOfTasks'
  BY <1>1, <1>3 DEF PacedInv, PacedAsksOfTasks
<1>5. QED
  BY <1>2, <1>4 DEF PacedInv

\* A step that touches neither the requests nor the refusals.
LEMMA PacedAside ==
    ASSUME PacedInv,
           UNCHANGED <<pending, wire, served, refused, told, modal, replaced, hasty, accepted,
                       link, tasks, removed>>
    PROVE  PacedInv'
<1>1. OneMatter'
  BY DEF PacedInv, OneMatter
<1>2. PacedAsksOfTasks'
  BY DEF PacedInv, PacedAsksOfTasks, Ahead, WrittenRows
<1>3. QED
  BY <1>1, <1>2 DEF PacedInv

LEMMA PacedGreet ==
    ASSUME RoundInv, PacedInv, Greet
    PROVE  PacedInv'
<1>1. /\ link = "none" /\ link' = "up"
      /\ UNCHANGED <<pending, wire, accepted, tasks, served, removed, refused, modal, told, replaced,
                     hasty>>
  BY DEF Greet, ClientConnects, Connect, serviceVars, guiVars, paceVars
<1>2. OneMatter'
  BY <1>1 DEF PacedInv, OneMatter
<1>3. Len(accepted) = served
  <2>1. Len(accepted) = Len(wire) + Len(pending)
    BY <1>1 DEF RoundInv, LifeInv, Inv, PendingIsRest
  <2>2. Len(pending) = 0 /\ served = Len(wire)
    BY <1>1 DEF RoundInv, FreshLink, Quiet
  <2>3. QED
    BY <2>1, <2>2, Counted
<1>4. Ahead' = {}
  BY <1>1, <1>3, Counted DEF Ahead
<1>5. PacedAsksOfTasks'
  BY <1>4 DEF PacedAsksOfTasks
<1>6. QED
  BY <1>2, <1>5 DEF PacedInv

\* The request served is the one there was, and its refusal takes its place.
LEMMA PacedServe ==
    ASSUME RoundInv, TellInv, PacedInv, Serve
    PROVE  PacedInv'
<1>1. Take
  BY DEF Serve, AddTask, RemoveTask, Refuse, Ignore
<1>2. /\ UNCHANGED <<link, pending, wire, accepted, modal, told, replaced, hasty>>
      /\ link = "up" /\ served' = served + 1 /\ served < Len(wire)
  BY <1>1, TakenIsAll DEF Take
<1>3. Len(refused') \in Nat /\ Len(refused') <= Len(refused) + 1
  <2>1. UNCHANGED refused \/ \E x : refused' = Append(refused, x)
    BY DEF Serve, AddTask, RemoveTask, Refuse, Ignore
  <2>2. QED
    BY <2>1, LogsTyped
<1>4. OneMatter'
  <2> DEFINE p == Len(pending)
             w == Len(wire)
             r == Len(refused)
             r2 == Len(refused')
             t == Len(told)
  <2> SUFFICES ASSUME ~hasty PROVE Matters(p, w, served + 1, r2, t, modal) <= 1 /\ ~replaced
    BY <1>2 DEF OneMatter
  <2>1. /\ p \in Nat /\ w \in Nat /\ served \in Nat /\ r \in Nat /\ t \in Nat
        /\ r2 \in Nat /\ r2 <= r + 1
    BY <1>3, Counted, LogsTyped
  <2>2. p + (w - served) + (r - t) + (IF modal THEN 1 ELSE 0) <= 1 /\ ~replaced
    BY DEF PacedInv, OneMatter, Matters
  <2> HIDE DEF p, w, r, r2, t
  <2>3. QED
    BY <2>1, <2>2 DEF Matters
<1>5. ASSUME ~hasty
      PROVE  Ahead' = {}
  <2>1. Len(accepted) <= served + 1
    BY <1>2, <1>5, OneRequest DEF PacedInv
  <2>2. QED
    BY <1>2, <2>1, Counted DEF Ahead
<1>6. PacedAsksOfTasks'
  BY <1>2, <1>5 DEF PacedAsksOfTasks
<1>7. QED
  BY <1>4, <1>6 DEF PacedInv

\* A refusal that is shown was the one matter, so the window was closed.
LEMMA PacedError ==
    ASSUME RoundInv, TellInv, TellInv', RoundInv', PacedInv, ErrorThrown
    PROVE  PacedInv'
<1>1. /\ modal' = TRUE /\ replaced' = (replaced \/ modal)
      /\ told' = Append(told, Head(queue).names)
      /\ UNCHANGED <<pending, wire, served, refused, hasty, accepted, link, tasks, removed>>
  BY DEF ErrorThrown, allVars, vars, serviceVars, paceVars
<1>2. Len(told') = Len(told) + 1
  BY <1>1, LogsTyped
<1>3. OneMatter'
  <2> DEFINE p == Len(pending)
             w == Len(wire)
             r == Len(refused)
             t == Len(told)
  <2> SUFFICES ASSUME ~hasty PROVE Matters(p, w, served, r, t + 1, TRUE) <= 1 /\ ~modal /\ ~replaced
    BY <1>1, <1>2 DEF OneMatter
  <2>1. /\ p \in Nat /\ w \in Nat /\ served \in Nat /\ served <= w /\ r \in Nat /\ t \in Nat
        /\ t + 1 <= r
    <3>1. Len(told') <= Len(refused')
      BY DEF TellInv, ErrorsComing
    <3>2. QED
      BY <1>1, <1>2, <3>1, Counted, Logged
  <2>2. p + (w - served) + (r - t) + (IF modal THEN 1 ELSE 0) <= 1 /\ ~replaced
    BY DEF PacedInv, OneMatter, Matters
  <2> HIDE DEF p, w, r, t
  <2>3. QED
    BY <2>1, <2>2 DEF Matters
<1>4. PacedAsksOfTasks'
  BY <1>1 DEF PacedInv, PacedAsksOfTasks, Ahead, WrittenRows
<1>5. QED
  BY <1>3, <1>4 DEF PacedInv

LEMMA PacedAccept ==
    ASSUME RoundInv, PacedInv, Accept
    PROVE  PacedInv'
<1>1. /\ modal' = FALSE
      /\ UNCHANGED <<pending, wire, served, refused, told, replaced, hasty, accepted, link, tasks,
                     removed>>
  BY DEF Accept, allVars, vars, serviceVars, paceVars
<1>2. OneMatter'
  <2> DEFINE p == Len(pending)
             w == Len(wire)
             r == Len(refused)
             t == Len(told)
  <2> SUFFICES ASSUME ~hasty PROVE Matters(p, w, served, r, t, FALSE) <= 1 /\ ~replaced
    BY <1>1 DEF OneMatter
  <2>1. p \in Nat /\ w \in Nat /\ served \in Nat /\ r \in Nat /\ t \in Nat
    BY Counted, LogsTyped
  <2>2. p + (w - served) + (r - t) + (IF modal THEN 1 ELSE 0) <= 1 /\ ~replaced
    BY DEF PacedInv, OneMatter, Matters
  <2> HIDE DEF p, w, r, t
  <2>3. QED
    BY <2>1, <2>2 DEF Matters
<1>3. PacedAsksOfTasks'
  BY <1>1 DEF PacedInv, PacedAsksOfTasks, Ahead, WrittenRows
<1>4. QED
  BY <1>2, <1>3 DEF PacedInv

\* A user who waited asks when there is no matter, of a row that is no longer to change.
LEMMA PacedAsk ==
    ASSUME RoundInv, TellInv, SeenInv, PacedInv, NEW kind \in Kinds, NEW n \in Names, Ask(kind, n)
    PROVE  PacedInv'
<1>1. /\ ~modal
      /\ kind = "add" \/ n \in shown
      /\ hasty' = (hasty \/ ~Settled)
      /\ UNCHANGED <<link, wire, tasks, served, removed, refused, shown, modal, told, replaced>>
  BY DEF Ask, Paced, UserNotifies, Notify, serviceVars, guiVars
<1>2. \/ /\ link = "up"
         /\ pending' = Posted(pending, <<kind, n>>)
         /\ accepted' = Append(accepted, <<kind, n>>)
      \/ link # "up" /\ UNCHANGED <<pending, accepted>>
  BY DEF Ask, UserNotifies, Notify
<1>3. link = "up" => Len(pending') = Len(pending) + 1
  BY <1>2, Typed, CommandTyped, PostedAppends
<1> SUFFICES ASSUME ~hasty' PROVE PacedInv'
  BY DEF PacedInv, OneMatter, PacedAsksOfTasks
<1>4. ~hasty /\ Settled
  BY <1>1
<1>5. told = refused
  BY <1>4, ToldAtRest
<1>6. Len(pending) = 0 /\ served = Len(wire)
  BY <1>4 DEF Settled
<1>7. OneMatter'
  <2>1. Len(pending') = 0 \/ Len(pending') = 1
    BY <1>2, <1>3, <1>6
  <2> DEFINE w == Len(wire)
             t == Len(told)
             p == Len(pending')
  <2>2. w \in Nat /\ t \in Nat /\ (p = 0 \/ p = 1)
    BY <2>1, Counted, LogsTyped
  <2> HIDE DEF w, t, p
  <2>3. Matters(p, w, w, t, t, FALSE) <= 1
    BY <2>2 DEF Matters
  <2>4. ~replaced
    BY <1>4 DEF PacedInv, OneMatter
  <2>5. Matters(Len(pending'), Len(wire'), served', Len(refused'), Len(told'), modal') <= 1
    <3>1. /\ Len(pending') = p /\ Len(wire') = w /\ served' = w /\ Len(refused') = t /\ Len(told') = t
          /\ ~modal'
      BY <1>1, <1>5, <1>6 DEF w, t, p
    <3>2. QED
      BY <2>3, <3>1 DEF Matters
  <2>6. QED
    BY <1>1, <2>4, <2>5 DEF OneMatter
<1>8. PacedAsksOfTasks'
  <2> SUFFICES ASSUME NEW i \in Ahead', accepted'[i][1] \in {"remove", "sync"}
               PROVE  accepted'[i][2] \in (tasks \cup WrittenRows)'
    BY DEF PacedAsksOfTasks
  <2>1. link = "up" /\ i \in served + 1 .. Len(accepted')
    BY <1>1 DEF Ahead
  <2>2. accepted' = Append(accepted, <<kind, n>>)
    BY <1>2, <2>1
  <2>3. Len(accepted) = served
    BY <1>6, <2>1, Counted DEF RoundInv, LifeInv, Inv, PendingIsRest
  <2>4. i = Len(accepted) + 1 /\ accepted'[i] = <<kind, n>>
    BY <2>1, <2>2, <2>3, Typed
  <2>5. shown \subseteq tasks \cup WrittenRows
    BY <1>4, <2>1, ShownAtRest
  <2>6. WrittenRows' = WrittenRows
    BY <1>1 DEF WrittenRows
  <2>7. QED
    BY <1>1, <2>4, <2>5, <2>6
<1>9. QED
  BY <1>7, <1>8 DEF PacedInv

LEMMA PacedStep ==
    ASSUME RoundInv, RoundInv', TellInv, TellInv', SeenInv, PacedInv, [RoundNext]_roundVars
    PROVE  PacedInv'
<1>1. CASE Live \/ Begin \/ Exit \/ Leave \/ Arrive \/ UNCHANGED roundVars
  <2>1. UNCHANGED tripVars
    BY <1>1 DEF Live, Begin, Exit, Leave, Arrive, roundVars
  <2>2. Transmit \/ Disconnect \/ UNCHANGED vars
    BY <1>1 DEF Live, Begin, Exit, Leave, Arrive, roundVars, allVars, StartUp, StartReader, Quit,
           ReaderReturns, ReaderThrows, DestroyInstance, ExitProcess, ServiceLeaves,
           SendCompletes, LinkCloses
  <2>3. QED
    BY <2>1, <2>2, SendsGoOn, PacedOnward
<1>2. CASE Greet
  BY <1>2, PacedGreet
<1>3. CASE Serve
  BY <1>3, PacedServe
<1>4. CASE StartReading \/ (\E n \in Names : ReportProgress(n)) \/ TableEvent
  <2>1. UNCHANGED <<pending, wire, served, refused, told, modal, replaced, hasty, accepted,
                    link, tasks, removed>>
    BY <1>4 DEF StartReading, ReadSome, ReportProgress, TableEvent, allVars, vars, serviceVars,
               guiVars, paceVars
  <2>2. QED
    BY <2>1, PacedAside
<1>5. CASE ErrorThrown
  BY <1>5, PacedError
<1>6. CASE Accept
  BY <1>6, PacedAccept
<1>7. ASSUME NEW kind \in Kinds, NEW n \in Names, Ask(kind, n)
      PROVE  PacedInv'
  BY <1>7, PacedAsk
<1>8. QED
  BY <1>1, <1>2, <1>3, <1>4, <1>5, <1>6, <1>7 DEF RoundNext, Gui

THEOREM PacedInvariance == RoundSpec => []PacedInv
<1>1. RoundInit => RoundInv /\ TellInv /\ SeenInv /\ PacedInv
  BY InitRoundInv, TellInit, SeenInit, PacedInit
<1>2. (RoundInv /\ TellInv /\ SeenInv /\ PacedInv) /\ [RoundNext]_roundVars
          => (RoundInv /\ TellInv /\ SeenInv /\ PacedInv)'
  BY RoundStep, TellStep, SeenStep, PacedStep
<1>3. QED
  BY <1>1, <1>2, PTL DEF RoundSpec

\* A user who waits for his answers never asks to remove or to sync a task that is gone:
\* of what he clicks on only the rows of the QML file are no tasks.
THEOREM PacedUserAsksOfTasks == RoundSpec => []PacedAsksOfTasks
<1>1. PacedInv => PacedAsksOfTasks
  BY DEF PacedInv
<1>2. QED
  BY <1>1, PacedInvariance, PTL

\* Such a user sees every text of the error window until he closes it.
THEOREM PacedUserReadsErrors == RoundSpec => []PacedReadsErrors
<1>1. PacedInv => PacedReadsErrors
  BY DEF PacedInv, OneMatter, PacedReadsErrors
<1>2. QED
  BY <1>1, PacedInvariance, PTL
=============================================================================
