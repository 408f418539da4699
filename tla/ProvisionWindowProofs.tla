------------------------ MODULE ProvisionWindowProofs ------------------------
(***************************************************************************)
(* Proofs about module ProvisionWindow: what the line buffer holds and how *)
(* long the window stays open, for every size of the buffer and every      *)
(* timeout.                                                                *)
(***************************************************************************)
EXTENDS ProvisionWindow, TLAPS

(***************************************************************************)
(* How far the time has got at each point of the loop: a turn starts below *)
(* the cap, lasts one wait and at most one handler, and `now' is the time  *)
(* between the two.                                                        *)
(***************************************************************************)
TurnTimes ==
  /\ pc = "read" => now < MaxTicks /\ clock <= now + HandleTicks
  /\ pc = "handle" => clock = now
  /\ pc # "read" => now < MaxTicks + HandleTicks + PollTicks
  /\ clock <= now + HandleTicks

ActivityHeard == last_activity = heard

IInv == TypeOK /\ BufferHoldsTail /\ ShortLinesWhole /\ TurnTimes /\ ActivityHeard
------------------------------------------------------------------------------
LEMMA InitIInv == Init => IInv
<1> SUFFICES ASSUME Init PROVE IInv
  OBVIOUS
<1> USE SizesAssumption, TicksAssumption DEF Init
<1>1. TypeOK
  BY DEF TypeOK
<1>2. BufferHoldsTail /\ ShortLinesWhole
  BY DEF BufferHoldsTail, ShortLinesWhole
<1>3. TurnTimes /\ ActivityHeard
  BY DEF TurnTimes, ActivityHeard
<1>4. QED
  BY <1>1, <1>2, <1>3 DEF IInv

(* A byte read keeps the buffer the tail of the line: appended to it while   *)
(* there is room, and else the only thing forgotten with everything before.  *)
LEMMA ReadByteKeepsTail ==
  ASSUME IInv, ReadByte
  PROVE  line' \in Seq(Nat) /\ BufferHoldsTail' /\ ShortLinesWhole'
<1> USE SizesAssumption DEF IInv, TypeOK, BufferHoldsTail, ShortLinesWhole
<1>1. sent' = sent + 1 /\ sent' \in Nat /\ Len(line) \in Nat
  BY DEF ReadByte
<1>2. CASE Len(line) < LineMax - 1
  <2>1. line' = Append(line, sent')
    BY <1>2 DEF ReadByte
  <2>2. /\ line' \in Seq(Nat)
        /\ Len(line') = Len(line) + 1
        /\ \A i \in 1..Len(line) : line'[i] = line[i]
        /\ line'[Len(line) + 1] = sent'
    BY <2>1, <1>1
  <2>3. \A i \in 1..Len(line') : line'[i] = sent' - Len(line') + i
    <3> SUFFICES ASSUME NEW i \in 1..Len(line') PROVE line'[i] = sent' - Len(line') + i
      OBVIOUS
    <3>1. CASE i \in 1..Len(line)
      BY <3>1, <2>2, <1>1
    <3>2. CASE i = Len(line) + 1
      BY <3>2, <2>2, <1>1
    <3>3. QED
      BY <3>1, <3>2, <2>2, <1>1
  <2>4. QED
    BY <2>2, <2>3, <1>1, <1>2
<1>3. CASE ~(Len(line) < LineMax - 1)
  <2>1. line' = <<>>
    BY <1>3 DEF ReadByte
  <2>2. QED
    BY <2>1, <1>1, <1>3
<1>4. QED
  BY <1>2, <1>3

LEMMA StepIInv == IInv /\ [Next]_vars => IInv'
<1> SUFFICES ASSUME IInv, [Next]_vars PROVE IInv'
  OBVIOUS
<1> USE SizesAssumption, TicksAssumption DEF IInv, TypeOK, TurnTimes, ActivityHeard, Wait
<1>1. CASE ReadByte
  <2>1. line' \in Seq(Nat) /\ BufferHoldsTail' /\ ShortLinesWhole'
    BY <1>1, ReadByteKeepsTail
  <2>2. QED
    BY <1>1, <2>1 DEF ReadByte
<1>2. CASE ReadNewline
  BY <1>2 DEF ReadNewline, BufferHoldsTail, ShortLinesWhole
<1>3. CASE ReadNothing
  BY <1>3 DEF ReadNothing, BufferHoldsTail, ShortLinesWhole
<1>4. CASE HandleLine
  BY <1>4 DEF HandleLine, BufferHoldsTail, ShortLinesWhole
<1>5. CASE Check
  BY <1>5 DEF Check, TimedOut, BufferHoldsTail, ShortLinesWhole
<1>6. CASE UNCHANGED vars
  BY <1>6 DEF vars, BufferHoldsTail, ShortLinesWhole
<1>7. QED
  BY <1>1, <1>2, <1>3, <1>4, <1>5, <1>6 DEF Next

LEMMA Invariance == Spec => []IInv
  BY InitIInv, StepIInv, PTL DEF Spec
------------------------------------------------------------------------------
(***************************************************************************)
(* Every variable keeps its type, and the loop's times stay in order.      *)
(***************************************************************************)
THEOREM TypeCorrect == Spec => []TypeOK
<1>1. IInv => TypeOK
  BY DEF IInv
<1>2. QED
  BY Invariance, <1>1, PTL

(***************************************************************************)
(* The line buffer never overflows and never mixes two lines.              *)
(***************************************************************************)
THEOREM BufferIsTail == Spec => []BufferHoldsTail
<1>1. IInv => BufferHoldsTail
  BY DEF IInv
<1>2. QED
  BY Invariance, <1>1, PTL

(***************************************************************************)
(* Every line that fits the buffer is handled whole, after any history.    *)
(***************************************************************************)
THEOREM ShortLinesAreWhole == Spec => []ShortLinesWhole
<1>1. IInv => ShortLinesWhole
  BY DEF IInv
<1>2. QED
  BY Invariance, <1>1, PTL

(***************************************************************************)
(* The window outlives its hard cap by one wait and two handlers at most.  *)
(***************************************************************************)
THEOREM WindowIsCapped == Spec => []HardCap
<1>1. IInv => HardCap
  BY TicksAssumption DEF IInv, TypeOK, TurnTimes, HardCap
<1>2. QED
  BY Invariance, <1>1, PTL

(***************************************************************************)
(* Until the cap, the window closes only on a host that has been silent    *)
(* for the idle timeout.                                                   *)
(***************************************************************************)
THEOREM ActiveHostIsKept == Spec => ActiveHostKeepsWindow
<1>1. IInv /\ [Next]_vars =>
        [pc' = "closed" /\ clock < MaxTicks => clock - heard >= IdleTicks]_vars
  <2> SUFFICES ASSUME IInv, Next, pc' = "closed", clock < MaxTicks
               PROVE  clock - heard >= IdleTicks
    OBVIOUS
  <2>1. Check /\ TimedOut
    BY DEF Next, ReadByte, ReadNewline, ReadNothing, HandleLine, Check
  <2>2. QED
    BY <2>1, TicksAssumption DEF IInv, TypeOK, ActivityHeard, TimedOut
<1>2. QED
  BY Invariance, <1>1, PTL DEF Spec, ActiveHostKeepsWindow
==============================================================================
