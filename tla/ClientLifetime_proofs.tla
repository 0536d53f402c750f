----------------------- MODULE ClientLifetime_proofs -----------------------
(***************************************************************************)
(* Proofs about ClientLifetime, for every set of names and every number of *)
(* commands.                                                               *)
(*                                                                         *)
(* Every step of the process is a step of TcpWriter or leaves its state    *)
(* alone (LifeImplementsSends), so that what is proved of the sends holds  *)
(* through start-up and exit.  That the client outlives every command then *)
(* follows from OneResultEach: a command asked for is pending or has its   *)
(* result in the io_context, and either way its handler holds a reference. *)
(***************************************************************************)
EXTENDS ClientLifetime, TcpWriter_proofs

\* Commands are asked for in the event loop, the client is destroyed after it.
DestroyedAtExit == client = "destroyed" => main = "exiting"

LifeInv ==
    /\ Inv
    /\ LifeTypeOK
    /\ DestroyedAtExit
    /\ ClientOutlivesCommands
    /\ AbortExplained

-----------------------------------------------------------------------------
LEMMA LinkClosesStep == LinkCloses => [Next]_vars
BY DEF LinkCloses, Next

LEMMA LifeStepIsSendStep == [LifeNext]_allVars => [Next]_vars
<1> SUFFICES ASSUME [LifeNext]_allVars PROVE [Next]_vars
  OBVIOUS
<1>1. CASE ClientConnects \/ SendCompletes \/ ServiceLeaves
  BY <1>1 DEF ClientConnects, SendCompletes, ServiceLeaves, Next
<1>2. ASSUME NEW kind \in Kinds, NEW n \in Names, UserNotifies(kind, n)
      PROVE  [Next]_vars
  BY <1>2 DEF UserNotifies, Next
<1>3. CASE ExitProcess \/ ReaderThrows
  BY <1>3, LinkClosesStep DEF ExitProcess, ReaderThrows
<1>4. CASE StartUp \/ StartReader \/ Quit \/ DestroyInstance \/ ReaderReturns
  BY <1>4 DEF StartUp, StartReader, Quit, DestroyInstance, ReaderReturns
<1>5. CASE UNCHANGED allVars
  BY <1>5 DEF allVars
<1>6. QED
  BY <1>1, <1>2, <1>3, <1>4, <1>5 DEF LifeNext

\* The process from main to exit, with its one client, is a TcpWriter.
THEOREM LifeImplementsSends == LifeSpec => Spec
<1>1. LifeInit => Init
  BY DEF LifeInit
<1>2. QED
  BY <1>1, LifeStepIsSendStep, PTL DEF LifeSpec, Spec

-----------------------------------------------------------------------------
LEMMA InitLifeInv == LifeInit => LifeInv
BY InitInv DEF LifeInit, Init, LifeInv, LifeTypeOK, DestroyedAtExit, ClientOutlivesCommands,
               AbortExplained

\* Only a notify changes the number of commands asked for.
LEMMA OthersKeepAsked ==
    /\ Connect => asked' = asked
    /\ Disconnect => asked' = asked
    /\ Transmit => asked' = asked
    /\ LinkCloses => asked' = asked
BY DEF Connect, Disconnect, Transmit, LinkCloses, vars

\* The handlers of the commands asked for are all there.
LEMMA HandlersAreCommands == Inv => Handlers = asked
<1> SUFFICES ASSUME Inv PROVE Handlers = asked
  OBVIOUS
<1>1. Len(results) \in Nat /\ Len(pending) \in Nat
  BY DEF Inv, TypeOK
<1>2. QED
  BY <1>1 DEF Inv, OneResultEach, Handlers

LEMMA LifeStep == LifeInv /\ [LifeNext]_allVars => LifeInv'
<1> SUFFICES ASSUME LifeInv, [LifeNext]_allVars PROVE LifeInv'
  OBVIOUS
<1>1. Inv'
  BY LifeStepIsSendStep, StepInv DEF LifeInv
<1> DEFINE Rest == LifeTypeOK /\ DestroyedAtExit /\ ClientOutlivesCommands /\ AbortExplained
<1> USE DEF LifeTypeOK, DestroyedAtExit, ClientOutlivesCommands, AbortExplained
<1>2. Rest
  BY DEF LifeInv
<1>3. CASE StartUp \/ StartReader \/ Quit \/ ReaderReturns
  <2>1. asked' = asked
    BY <1>3 DEF StartUp, StartReader, Quit, ReaderReturns, vars
  <2>2. Rest'
    BY <1>2, <1>3, <2>1 DEF StartUp, StartReader, Quit, ReaderReturns
  <2>3. QED
    BY <1>1, <2>2 DEF LifeInv
<1>4. CASE ClientConnects \/ SendCompletes \/ ServiceLeaves
  <2>1. asked' = asked
    BY <1>4, OthersKeepAsked DEF ClientConnects, SendCompletes, ServiceLeaves
  <2>2. Rest'
    BY <1>2, <1>4, <2>1 DEF ClientConnects, SendCompletes, ServiceLeaves, lifeVars
  <2>3. QED
    BY <1>1, <2>2 DEF LifeInv
<1>5. ASSUME NEW kind \in Kinds, NEW n \in Names, UserNotifies(kind, n)
      PROVE  LifeInv'
  <2>1. main = "running" /\ process = "running" /\ UNCHANGED lifeVars
    BY <1>5 DEF UserNotifies
  <2>2. Rest'
    BY <1>2, <2>1 DEF lifeVars
  <2>3. QED
    BY <1>1, <2>2 DEF LifeInv
<1>6. CASE DestroyInstance
  <2>1. asked' = asked
    BY <1>6 DEF DestroyInstance, vars
  <2>2. client' = "destroyed" => asked = 0 \/ client = "destroyed"
    BY <1>6, HandlersAreCommands DEF DestroyInstance, LifeInv
  <2>3. Rest'
    BY <1>2, <1>6, <2>1, <2>2 DEF DestroyInstance
  <2>4. QED
    BY <1>1, <2>3 DEF LifeInv
<1>7. CASE ExitProcess \/ ReaderThrows
  <2>1. asked' = asked
    BY <1>7, OthersKeepAsked DEF ExitProcess, ReaderThrows
  <2>2. Rest'
    BY <1>2, <1>7, <2>1 DEF ExitProcess, ReaderThrows
  <2>3. QED
    BY <1>1, <2>2 DEF LifeInv
<1>8. CASE UNCHANGED allVars
  <2>1. Rest'
    BY <1>2, <1>8 DEF allVars, lifeVars, vars
  <2>2. QED
    BY <1>1, <2>1 DEF LifeInv
<1>9. QED
  BY <1>3, <1>4, <1>5, <1>6, <1>7, <1>8 DEF LifeNext

\* The inductive invariant holds from main to exit.
THEOREM LifeInvariance == LifeSpec => []LifeInv
BY InitLifeInv, LifeStep, PTL DEF LifeSpec

\* Once a command was asked for, no thread ever uses a destroyed client.
THEOREM ClientOutlives == LifeSpec => []ClientOutlivesCommands
<1>1. LifeInv => ClientOutlivesCommands
  BY DEF LifeInv
<1>2. QED
  BY <1>1, LifeInvariance, PTL

\* An abort is a reset, or the exit of a process that never sent a command.
THEOREM AbortsAreExplained == LifeSpec => []AbortExplained
<1>1. LifeInv => AbortExplained
  BY DEF LifeInv
<1>2. QED
  BY <1>1, LifeInvariance, PTL
=============================================================================
