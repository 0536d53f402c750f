-------------------------- MODULE TaskView_proofs --------------------------
(***************************************************************************)
(* What TaskView is worth: a table that implements it shows, as soon as    *)
(* nothing is on its way, what the service has, for every set of tasks.    *)
(*                                                                         *)
(* CaughtUp says nothing while something is coming.  The invariant follows *)
(* the youngest set on its way: it is what the service has.                *)
(***************************************************************************)
EXTENDS TaskView, SequenceTheorems, TLAPS

Inv ==
    /\ tasks \in SUBSET Tasks
    /\ shown \in SUBSET Tasks
    /\ coming \in Seq(SUBSET Tasks)
    /\ connected => tasks = IF coming = <<>> THEN shown ELSE coming[Len(coming)]

-----------------------------------------------------------------------------
LEMMA InitInv == Init => Inv
BY DEF Init, Inv

\* The set of tasks there is when they are first sent is the youngest.
LEMMA ConnectInv == Inv /\ Connect => Inv'
<1> SUFFICES ASSUME Inv, Connect PROVE Inv'
  OBVIOUS
<1>1. coming' = <<tasks>> /\ UNCHANGED <<tasks, shown>>
  BY DEF Connect
<1>2. coming' \in Seq(SUBSET Tasks) /\ coming' # <<>> /\ coming'[Len(coming')] = tasks
  BY <1>1 DEF Inv
<1>3. QED
  BY <1>1, <1>2 DEF Inv

\* A change sends the new set after those that are coming.
LEMMA ChangeInv == Inv /\ Change => Inv'
<1> SUFFICES ASSUME Inv, Change PROVE Inv'
  OBVIOUS
<1>1. /\ tasks' \in SUBSET Tasks
      /\ coming' = IF connected THEN Append(coming, tasks') ELSE coming
      /\ UNCHANGED <<connected, shown>>
  BY DEF Change, Inv
<1>2. CASE connected
  <2>1. coming \in Seq(SUBSET Tasks) /\ coming' = Append(coming, tasks')
    BY <1>1, <1>2 DEF Inv
  <2>2. /\ coming' \in Seq(SUBSET Tasks)
        /\ coming' # <<>>
        /\ coming'[Len(coming')] = tasks'
    BY <1>1, <2>1
  <2>3. QED
    BY <1>1, <2>2 DEF Inv
<1>3. CASE ~connected
  BY <1>1, <1>3 DEF Inv
<1>4. QED
  BY <1>2, <1>3

\* Showing the oldest set leaves the youngest, or shows it.
LEMMA ShowInv == Inv /\ Show => Inv'
<1> SUFFICES ASSUME Inv, Show PROVE Inv'
  OBVIOUS
<1>1. /\ coming # <<>>
      /\ coming \in Seq(SUBSET Tasks)
      /\ shown' = Head(coming)
      /\ coming' = Tail(coming)
      /\ UNCHANGED <<connected, tasks>>
  BY DEF Show, Inv
<1>2. /\ coming' \in Seq(SUBSET Tasks)
      /\ shown' \in SUBSET Tasks
      /\ shown' = coming[1]
      /\ Len(coming') = Len(coming) - 1
      /\ \A i \in 1 .. Len(coming') : coming'[i] = coming[i + 1]
      /\ Len(coming) \in Nat
      /\ Len(coming) > 0
  BY <1>1
<1>3. ASSUME connected'
      PROVE  tasks' = IF coming' = <<>> THEN shown' ELSE coming'[Len(coming')]
  <2>1. tasks' = coming[Len(coming)]
    BY <1>1, <1>3 DEF Inv
  <2>2. CASE coming' = <<>>
    <3>1. Len(coming) = 1
      BY <1>2, <2>2
    <3>2. QED
      BY <1>2, <2>1, <2>2, <3>1
  <2>3. CASE coming' # <<>>
    <3>1. Len(coming') > 0
      BY <1>2, <2>3
    <3>2. coming'[Len(coming')] = coming[Len(coming)]
      BY <1>2, <3>1
    <3>3. QED
      BY <2>1, <2>3, <3>2
  <2>4. QED
    BY <2>2, <2>3
<1>4. QED
  BY <1>1, <1>2, <1>3 DEF Inv

-----------------------------------------------------------------------------
\* With nothing on its way the table shows what the service has.
THEOREM ViewCatchesUp == Spec => []CaughtUp
<1>1. Init => Inv
  BY InitInv
<1>2. Inv /\ [Next]_viewVars => Inv'
  <2>1. Inv /\ UNCHANGED viewVars => Inv'
    BY DEF Inv, viewVars
  <2>2. QED
    BY <2>1, ConnectInv, ChangeInv, ShowInv DEF Next
<1>3. Inv => CaughtUp
  BY DEF Inv, CaughtUp
<1>4. QED
  BY <1>1, <1>2, <1>3, PTL DEF Spec
=============================================================================
