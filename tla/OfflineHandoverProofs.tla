------------------------ MODULE OfflineHandoverProofs ------------------------
(***************************************************************************)
(* In the offline mode the sound hardware has one user at a time, for any  *)
(* times that leave room in Grace for the longest stretch without a test   *)
(* of the bit and the tear down.  OfflineHandover implements Codec.        *)
(***************************************************************************)
EXTENDS OfflineHandover, TLAPS

NoControl == \A s \in Slots : ~Live(s)

\* The longest a task may still take before it reads the bit.
Budget(c) == c.left + c.skips * TurnTime

\* Each task is within the time its phase may take.
Deadlines ==
  \A s \in Slots :
    /\ control[s].at = "setup" => control[s].left <= SetupTime
    /\ control[s].at = "loop" => Budget(control[s]) <= ReadGap
    /\ control[s].at = "stop" => control[s].left <= StopTime

\* While the bit is clear, the time since then has been taken off it.
Countdown ==
  ~run => \A s \in Slots :
    /\ control[s].at = "setup" => control[s].left + silence <= SetupTime
    /\ control[s].at = "loop" => Budget(control[s]) + silence <= ReadGap
    /\ control[s].at = "stop" => control[s].left + silence < Grace

\* What notice knows at each point of an announcement.
Protocol ==
  /\ boot # "done" => NoControl /\ notice.at = "poll"
  /\ boot = "create" => run
  /\ notice.at = "grace" => ~run /\ silence + notice.left >= Grace
  /\ notice.at \in {"announce", "setBit"} => ~run /\ NoControl
  /\ notice.at = "create" => run /\ NoControl

HandoverInv == TypeOK /\ Deadlines /\ Countdown /\ Protocol /\ OneControl

-----------------------------------------------------------------------------
\* The constants are numbers, and a turn fits into the time for all turns.
LEMMA Times ==
  /\ SetupTime \in Nat /\ TurnTime \in Nat /\ Continues \in Nat
  /\ StopTime \in Nat /\ Grace \in Nat /\ ReadGap \in Nat
  /\ SetupTime + StopTime < Grace /\ ReadGap + StopTime < Grace
  /\ SetupTime > 0
BY TimingAssumption DEF ReadGap

\* A turn begun has used nothing of the time for a row of turns, and one
\* that skips the test has used the time of the turn that ended.
LEMMA TurnBudget ==
  /\ Turn(Continues) \in Controls
  /\ Budget(Turn(Continues)) = ReadGap
  /\ \A c \in Controls : c.skips > 0 =>
       /\ Turn(c.skips - 1) \in Controls
       /\ Budget(Turn(c.skips - 1)) = c.skips * TurnTime
       /\ Budget(Turn(c.skips - 1)) <= Budget(c)
<1>1. Turn(Continues) \in Controls
  BY Times DEF Turn, Controls
<1>2. Budget(Turn(Continues)) = ReadGap
  BY Times DEF Turn, Budget, ReadGap
<1>3. ASSUME NEW c \in Controls, c.skips > 0
      PROVE  /\ Turn(c.skips - 1) \in Controls
             /\ Budget(Turn(c.skips - 1)) = c.skips * TurnTime
             /\ Budget(Turn(c.skips - 1)) <= Budget(c)
  <2>1. c.skips \in 0 .. Continues /\ c.left \in Nat
    BY DEF Controls
  <2>2. c.skips - 1 \in 0 .. Continues
    BY <1>3, <2>1, Times
  <2>3. Turn(c.skips - 1) \in Controls
    BY <2>2, Times DEF Turn, Controls
  <2>4. Budget(Turn(c.skips - 1)) = TurnTime + (c.skips - 1) * TurnTime
    BY DEF Turn, Budget
  <2>5. TurnTime + (c.skips - 1) * TurnTime = c.skips * TurnTime
    BY <2>1, Times
  <2>6. c.skips * TurnTime \in Nat
    BY <2>1, Times
  <2>7. QED BY <2>1, <2>3, <2>4, <2>5, <2>6 DEF Budget
<1>4. QED BY <1>1, <1>2, <1>3

\* Budgets are numbers, and a tick takes one off those not yet used up.
LEMMA BudgetAges ==
  ASSUME NEW c \in Controls
  PROVE  /\ Budget(c) \in Nat
         /\ c.left > 0 =>
              /\ [c EXCEPT !.left = c.left - 1] \in Controls
              /\ [c EXCEPT !.left = c.left - 1].at = c.at
              /\ [c EXCEPT !.left = c.left - 1].left = c.left - 1
              /\ Budget([c EXCEPT !.left = c.left - 1]) = Budget(c) - 1
<1>1. c.left \in Nat /\ c.skips \in Nat /\ c.skips * TurnTime \in Nat
  BY Times DEF Controls
<1>2. Budget(c) \in Nat
  BY <1>1 DEF Budget
<1>3. ASSUME c.left > 0
      PROVE  /\ [c EXCEPT !.left = c.left - 1] \in Controls
             /\ [c EXCEPT !.left = c.left - 1].at = c.at
             /\ [c EXCEPT !.left = c.left - 1].left = c.left - 1
             /\ [c EXCEPT !.left = c.left - 1].skips = c.skips
  BY <1>1, <1>3 DEF Controls
<1>4. QED BY <1>1, <1>2, <1>3 DEF Budget

\* Types of what the timing speaks of.
LEMMA Typed ==
  ASSUME HandoverInv
  PROVE  /\ silence \in Nat /\ silence <= Grace
         /\ \A s \in Slots :
              /\ control[s] \in Controls
              /\ control[s].left \in Nat
              /\ control[s].at \in {"gone", "setup", "loop", "stop"}
              /\ Budget(control[s]) \in Nat
<1>1. silence \in 0 .. Grace /\ control \in [Slots -> Controls]
  BY DEF HandoverInv, TypeOK
<1>2. silence \in Nat /\ silence <= Grace
  BY <1>1, Times
<1>3. \A c \in Controls : c.left \in Nat /\ c.at \in {"gone", "setup", "loop", "stop"}
  BY DEF Controls
<1>4. \A c \in Controls : Budget(c) \in Nat
  BY BudgetAges
<1>5. QED BY <1>1, <1>2, <1>3, <1>4

\* What has to hold of one task's record for the timing to hold of it.
Timely(c) ==
  /\ c.at = "setup" => c.left <= SetupTime
  /\ c.at = "loop" => Budget(c) <= ReadGap
  /\ c.at = "stop" => c.left <= StopTime

Counted(c) ==
  /\ c.at = "setup" => c.left + silence <= SetupTime
  /\ c.at = "loop" => Budget(c) + silence <= ReadGap
  /\ c.at = "stop" => c.left + silence < Grace

\* A step of one task keeps the timing of all if it keeps its own.
LEMMA OneTaskSteps ==
  ASSUME HandoverInv, NEW s \in Slots, NEW c \in Controls,
         control' = [control EXCEPT ![s] = c],
         UNCHANGED <<run, silence>>,
         Timely(c), ~run => Counted(c)
  PROVE  /\ control' \in [Slots -> Controls]
         /\ control'[s] = c
         /\ \A t \in Slots \ {s} : control'[t] = control[t]
         /\ Deadlines' /\ Countdown'
<1>1. control \in [Slots -> Controls]
  BY DEF HandoverInv, TypeOK
<1>2. /\ control' \in [Slots -> Controls]
      /\ control'[s] = c
      /\ \A t \in Slots \ {s} : control'[t] = control[t]
  BY <1>1
<1>3. Deadlines'
  BY <1>2 DEF HandoverInv, Deadlines, Timely, Budget
<1>4. Countdown'
  BY <1>2 DEF HandoverInv, Countdown, Counted, Budget
<1>5. QED BY <1>2, <1>3, <1>4

\* Creating offline_control keeps the timing if the bit is set, and leaves
\* at most one alive if there was none.
LEMMA CreatePreserves ==
  ASSUME HandoverInv, run, NoControl, CreateControl, UNCHANGED <<run, silence>>
  PROVE  /\ control' \in [Slots -> Controls]
         /\ Deadlines' /\ Countdown' /\ OneControl'
<1>1. CASE \E s \in Slots : control' = [control EXCEPT ![s] = Phase("setup", SetupTime)]
  <2>1. PICK s \in Slots : control' = [control EXCEPT ![s] = Phase("setup", SetupTime)]
    BY <1>1
  <2>2. Phase("setup", SetupTime) \in Controls /\ Timely(Phase("setup", SetupTime))
    BY Times DEF Phase, Controls, Timely
  <2>3. QED
    BY <2>1, <2>2, OneTaskSteps DEF OneControl, NoControl, Live
<1>2. CASE UNCHANGED control
  BY <1>2 DEF HandoverInv, TypeOK, Deadlines, Countdown, OneControl, Live, Budget
<1>3. QED BY <1>1, <1>2 DEF CreateControl

-----------------------------------------------------------------------------
\* app_main preserves the invariant.
LEMMA BootPreserves == HandoverInv /\ Boot => HandoverInv'
<1> SUFFICES ASSUME HandoverInv, Boot PROVE HandoverInv'
  OBVIOUS
<1>1. CASE BootSetBit
  BY <1>1 DEF BootSetBit, HandoverInv, TypeOK, Deadlines, Countdown, Protocol,
              NoControl, OneControl, Live, Budget
<1>2. CASE BootCreate
  <2>1. run /\ NoControl /\ notice.at = "poll"
    BY <1>2 DEF BootCreate, HandoverInv, Protocol
  <2>2. /\ control' \in [Slots -> Controls]
        /\ Deadlines' /\ Countdown' /\ OneControl'
    BY <1>2, <2>1, CreatePreserves DEF BootCreate
  <2>3. QED
    BY <1>2, <2>1, <2>2 DEF BootCreate, HandoverInv, TypeOK, Protocol
<1>3. QED BY <1>1, <1>2 DEF Boot

\* notice preserves the invariant: it announces when nobody is left.
LEMMA NoticePreserves ==
  HandoverInv /\ (NoticeDue \/ NoticeReturn) => HandoverInv'
<1> SUFFICES ASSUME HandoverInv, NoticeDue \/ NoticeReturn PROVE HandoverInv'
  OBVIOUS
<1>1. CASE NoticeDue
  <2>1. TypeOK'
    <3>1. notice' \in [at : {"poll", "grace", "announce", "setBit", "create"},
                       left : 0 .. Grace]
      BY <1>1, Times DEF NoticeDue, At
    <3>2. run' = FALSE /\ silence' = 0 /\ boot' = boot /\ control' = control
      BY <1>1 DEF NoticeDue
    <3>3. silence' \in 0 .. Grace
      BY <3>2, Times
    <3>4. QED BY <3>1, <3>2, <3>3 DEF HandoverInv, TypeOK
  <2>2. Deadlines' /\ OneControl'
    BY <1>1 DEF NoticeDue, HandoverInv, Deadlines, OneControl, Live, Budget
  <2>3. Countdown'
    <3> SUFFICES ASSUME NEW s \in Slots PROVE Counted(control[s])'
      BY DEF Countdown, Counted
    <3>1. control[s].left \in Nat /\ Budget(control[s]) \in Nat
      BY Typed
    <3>3. Timely(control[s])
      BY DEF HandoverInv, Deadlines, Timely
    <3>4. silence' = 0 /\ control'[s] = control[s]
      BY <1>1 DEF NoticeDue
    <3>5. StopTime < Grace
      BY Times
    <3>6. control[s].at = "setup" => control[s].left + 0 <= SetupTime
      BY <3>1, <3>3, Times DEF Timely
    <3>7. control[s].at = "loop" => Budget(control[s]) + 0 <= ReadGap
      BY <3>1, <3>3, Times DEF Timely
    <3>8. control[s].at = "stop" => control[s].left + 0 < Grace
      BY <3>1, <3>3, <3>5, Times DEF Timely
    <3>9. QED
      BY <3>4, <3>6, <3>7, <3>8 DEF Counted, Budget
  <2>4. Protocol'
    BY <1>1, Times DEF NoticeDue, HandoverInv, Protocol, At
  <2>5. QED BY <2>1, <2>2, <2>3, <2>4 DEF HandoverInv
<1>2. CASE Announce
  <2>1. ~run /\ silence >= Grace
    BY <1>2, Times DEF Announce, HandoverInv, Protocol, TypeOK
  <2>2. NoControl
    <3> SUFFICES ASSUME NEW s \in Slots, Live(s) PROVE FALSE
      BY DEF NoControl
    <3>1. control[s].at \in {"setup", "loop", "stop"}
      BY Typed DEF Live
    <3>2. /\ control[s].left \in Nat /\ Budget(control[s]) \in Nat
          /\ silence \in Nat
      BY Typed
    <3>3. Counted(control[s])
      BY <2>1 DEF HandoverInv, Countdown, Counted
    <3>4. QED BY <2>1, <3>1, <3>2, <3>3, Times DEF Counted
  <2>3. QED
    BY <1>2, <2>1, <2>2, Times
      DEF Announce, HandoverInv, TypeOK, Deadlines, Countdown, Protocol,
          NoControl, OneControl, Live, Budget, At
<1>3. CASE Announced
  BY <1>3, Times
    DEF Announced, HandoverInv, TypeOK, Deadlines, Countdown, Protocol,
        NoControl, OneControl, Live, Budget, At
<1>4. CASE NoticeSetBit
  BY <1>4, Times
    DEF NoticeSetBit, HandoverInv, TypeOK, Deadlines, Countdown, Protocol,
        NoControl, OneControl, Live, Budget, At
<1>5. CASE NoticeCreate
  <2>1. run /\ NoControl /\ boot = "done"
    BY <1>5 DEF NoticeCreate, HandoverInv, Protocol, TypeOK
  <2>2. /\ control' \in [Slots -> Controls]
        /\ Deadlines' /\ Countdown' /\ OneControl'
    BY <1>5, <2>1, CreatePreserves DEF NoticeCreate
  <2>3. QED
    BY <1>5, <2>1, <2>2, Times
      DEF NoticeCreate, HandoverInv, TypeOK, Protocol, At
<1>6. QED BY <1>1, <1>2, <1>3, <1>4, <1>5 DEF NoticeReturn

\* offline_control preserves it: a skipped test is paid from the budget, a
\* test that finds the bit clear leaves time for the tear down.
LEMMA ControlPreserves ==
  ASSUME HandoverInv, NEW s \in Slots, Control(s)
  PROVE  HandoverInv'
<1>1. /\ control[s] \in Controls /\ control[s].left \in Nat
      /\ Budget(control[s]) \in Nat /\ silence \in Nat
  BY Typed
<1>2. Timely(control[s]) /\ (~run => Counted(control[s]))
  BY DEF HandoverInv, Deadlines, Countdown, Timely, Counted
<1>3. UNCHANGED <<run, silence, boot, notice>>
  BY DEF Control, ReadBit, Continue, Stopped
<1>4. \E c \in Controls : /\ control' = [control EXCEPT ![s] = c]
                          /\ c.at # "gone" => Live(s)
                          /\ Timely(c) /\ (~run => Counted(c))
  <2>1. CASE ReadBit(s) /\ run
    <3>1. /\ Turn(Continues) \in Controls /\ Turn(Continues).at = "loop"
          /\ Budget(Turn(Continues)) = ReadGap
      BY TurnBudget DEF Turn
    <3>2. Timely(Turn(Continues))
      BY <3>1, Times DEF Timely
    <3>3. QED BY <2>1, <3>1, <3>2 DEF ReadBit, Live
  <2>2. CASE ReadBit(s) /\ ~run
    <3>1. Phase("stop", StopTime) \in Controls
      BY Times DEF Phase, Controls
    <3>2. Timely(Phase("stop", StopTime))
      BY Times DEF Phase, Timely
    <3>3. silence + StopTime < Grace
      BY <1>1, <1>2, <2>2, Times DEF ReadBit, Counted
    <3>4. Counted(Phase("stop", StopTime))
      BY <1>1, <3>3, Times DEF Phase, Counted
    <3>5. QED BY <2>2, <3>1, <3>2, <3>4 DEF ReadBit, Live
  <2>3. CASE Continue(s)
    <3> DEFINE c == Turn(control[s].skips - 1)
    <3>1. c \in Controls /\ Budget(c) <= Budget(control[s]) /\ c.at = "loop"
      BY <1>1, <2>3, TurnBudget DEF Continue, Turn
    <3>2. Budget(c) \in Nat
      BY <3>1, BudgetAges
    <3>3. Timely(c) /\ (~run => Counted(c))
      BY <1>1, <1>2, <2>3, <3>1, <3>2, Times DEF Continue, Timely, Counted
    <3>4. control' = [control EXCEPT ![s] = c] /\ Live(s)
      BY <2>3 DEF Continue, Live
    <3> HIDE DEF c
    <3>5. QED BY <3>1, <3>3, <3>4
  <2>4. CASE Stopped(s)
    <3>1. Phase("gone", 0) \in Controls /\ Phase("gone", 0).at = "gone"
      BY Times DEF Phase, Controls
    <3>2. Timely(Phase("gone", 0)) /\ Counted(Phase("gone", 0))
      BY <3>1 DEF Timely, Counted
    <3>3. QED BY <2>4, <3>1, <3>2 DEF Stopped
  <2>5. QED BY <2>1, <2>2, <2>3, <2>4 DEF Control
<1>5. PICK c \in Controls : /\ control' = [control EXCEPT ![s] = c]
                            /\ c.at # "gone" => Live(s)
                            /\ Timely(c) /\ (~run => Counted(c))
  BY <1>4
<1>6. /\ control' \in [Slots -> Controls]
      /\ control'[s] = c
      /\ \A t \in Slots \ {s} : control'[t] = control[t]
      /\ Deadlines' /\ Countdown'
  BY <1>3, <1>5, OneTaskSteps
<1>7. \A t \in Slots : Live(t)' => Live(t)
  BY <1>5, <1>6 DEF Live
<1>8. OneControl' /\ (NoControl => NoControl')
  BY <1>7 DEF HandoverInv, OneControl, NoControl
<1>9. QED
  BY <1>3, <1>6, <1>8 DEF HandoverInv, TypeOK, Protocol

\* A tick moves each task as much as the silence.
LEMMA TickPreserves == HandoverInv /\ Tick => HandoverInv'
<1> SUFFICES ASSUME HandoverInv, Tick PROVE HandoverInv'
  OBVIOUS
<1>1. /\ silence \in Nat /\ silence' \in 0 .. Grace
      /\ silence' <= silence + 1 /\ (~run => silence' >= Grace \/ silence' = silence + 1)
  BY Times DEF Tick, HandoverInv, TypeOK
<1>2. /\ notice'.at = notice.at
      /\ notice'.left = Less(notice.left)
      /\ notice' \in [at : {"poll", "grace", "announce", "setBit", "create"},
                      left : 0 .. Grace]
      /\ notice.left \in 0 .. Grace
  BY Times DEF Tick, HandoverInv, TypeOK, At, Less
<1>3. ASSUME NEW s \in Slots
      PROVE  /\ control'[s] \in Controls
             /\ control'[s].at = control[s].at
             /\ Timely(control[s]) => Timely(control'[s])
             /\ ~run /\ Counted(control[s]) => Counted(control[s])'
  <2> DEFINE c == control[s]
  <2>1. c \in Controls /\ c.left \in Nat
    BY Typed
  <2>2. control'[s] = [c EXCEPT !.left = Less(c.left)]
    BY DEF Tick
  <2>3. CASE Live(s)
    <3>1. c.left > 0 /\ Less(c.left) = c.left - 1
      BY <2>1, <2>3 DEF Tick, Less
    <3>2. /\ control'[s] \in Controls
          /\ control'[s].at = c.at
          /\ control'[s].left = c.left - 1
          /\ Budget(control'[s]) = Budget(c) - 1
          /\ Budget(c) \in Nat
      BY <2>1, <2>2, <3>1, BudgetAges
    <3>3. Timely(c) => Timely(control'[s])
      BY <2>1, <3>2, Times DEF Timely
    <3>4. ~run /\ Counted(c) => Counted(control[s])'
      BY <1>1, <2>1, <3>2, Times DEF Counted, Budget
    <3>5. QED BY <3>2, <3>3, <3>4
  <2>4. CASE ~Live(s)
    <3>1. c.at = "gone" /\ Less(c.left) \in Nat
      BY <2>1, <2>4 DEF Live, Less
    <3>2. control'[s] \in Controls /\ control'[s].at = "gone"
      BY <2>1, <2>2, <3>1 DEF Controls
    <3>3. QED BY <3>1, <3>2 DEF Timely, Counted
  <2>5. QED BY <2>3, <2>4
<1>4. TypeOK'
  BY <1>1, <1>2, <1>3 DEF Tick, HandoverInv, TypeOK
<1>5. Deadlines'
  BY <1>3 DEF HandoverInv, Deadlines, Timely, Budget
<1>6. Countdown'
  <2> SUFFICES ASSUME ~run, NEW s \in Slots PROVE Counted(control[s])'
    BY DEF Countdown, Counted, Tick
  <2>1. Counted(control[s])
    BY DEF HandoverInv, Countdown, Counted
  <2>2. QED BY <1>3, <2>1
<1>7. OneControl' /\ (NoControl => NoControl')
  BY <1>3 DEF HandoverInv, OneControl, NoControl, Live
<1>8. Protocol'
  <2>1. notice.at = "grace" => silence' + Less(notice.left) >= Grace
    <3> SUFFICES ASSUME notice.at = "grace" PROVE silence' + Less(notice.left) >= Grace
      OBVIOUS
    <3>1. ~run /\ silence + notice.left >= Grace
      BY DEF HandoverInv, Protocol
    <3>2. /\ silence' >= Grace \/ silence' = silence + 1
          /\ silence \in Nat /\ silence' \in Nat
      BY <1>1, <3>1, Times
    <3>3. Less(notice.left) \in Nat /\ Less(notice.left) >= notice.left - 1
      BY <1>2, Times DEF Less
    <3>4. QED BY <1>2, <3>1, <3>2, <3>3, Times
  <2>2. QED BY <1>2, <1>7, <2>1 DEF Tick, HandoverInv, Protocol
<1>9. QED BY <1>4, <1>5, <1>6, <1>7, <1>8 DEF HandoverInv

-----------------------------------------------------------------------------
\* The invariant holds in every reachable state.
THEOREM HandoverInvariant == Spec => []HandoverInv
<1>1. Init => HandoverInv
  <2> SUFFICES ASSUME Init PROVE HandoverInv
    OBVIOUS
  <2>1. Phase("gone", 0) \in Controls
    BY Times DEF Phase, Controls
  <2>2. control \in [Slots -> Controls] /\ NoControl
    BY <2>1 DEF Init, NoControl, Live, Phase
  <2>3. notice \in [at : {"poll", "grace", "announce", "setBit", "create"},
                    left : 0 .. Grace] /\ notice.at = "poll"
    BY Times DEF Init, At
  <2>4. TypeOK
    <3>1. 0 \in 0 .. Grace
      BY Times
    <3>2. QED BY <2>2, <2>3, <3>1 DEF Init, TypeOK
  <2>5. Deadlines /\ Countdown /\ OneControl
    BY <2>2 DEF Deadlines, Countdown, OneControl, NoControl, Live
  <2>6. Protocol
    BY <2>2, <2>3 DEF Init, Protocol
  <2>7. QED BY <2>4, <2>5, <2>6 DEF HandoverInv
<1>2. HandoverInv /\ [Next]_vars => HandoverInv'
  <2>1. HandoverInv /\ UNCHANGED vars => HandoverInv'
    BY DEF HandoverInv, TypeOK, Deadlines, Countdown, Protocol, OneControl,
           NoControl, Live, Budget, vars
  <2>2. QED
    BY <2>1, BootPreserves, NoticePreserves, ControlPreserves, TickPreserves
      DEF Next
<1>3. QED BY <1>1, <1>2, PTL DEF Spec

\* Type correctness, for any constants.
THEOREM TypeCorrect == Spec => []TypeOK
<1>1. HandoverInv => TypeOK  BY DEF HandoverInv
<1>2. QED BY <1>1, HandoverInvariant, PTL

\* There is never a second offline_control to overwrite the static handles.
THEOREM OneControlAtMost == Spec => []OneControl
<1>1. HandoverInv => OneControl  BY DEF HandoverInv
<1>2. QED BY <1>1, HandoverInvariant, PTL

\* The offline mode implements the abstract hardware: each step takes the
\* free hardware, gives it back or leaves its user alone.
THEOREM HandoverImplementsCodec == Spec => HardwareHasOneUser
<1>1. Init => Hardware!Init
  BY DEF Init, Hardware!Init, Owner, Live, At, Phase
<1>2. HandoverInv /\ HandoverInv' /\ [Next]_vars => [Hardware!Next]_Owner
  <2> SUFFICES ASSUME HandoverInv, HandoverInv', [Next]_vars, Owner' # Owner
               PROVE  \/ Owner = "none" /\ Owner' \in {"control", "notice"}
                      \/ Owner # "none" /\ Owner' = "none"
    BY DEF Hardware!Next, Hardware!Acquire, Hardware!Release
  <2>1. CASE UNCHANGED vars
    BY <2>1 DEF vars, Owner, Live
  <2>2. CASE Boot
    BY <2>2 DEF Boot, BootSetBit, BootCreate, HandoverInv, Protocol,
                NoControl, Owner, Live
  <2>3. CASE NoticeDue
    BY <2>3 DEF NoticeDue, Owner, Live, At
  <2>4. CASE NoticeReturn
    BY <2>4 DEF NoticeReturn, Announce, Announced, NoticeSetBit, NoticeCreate,
                HandoverInv, Protocol, NoControl, Owner, Live, At
  <2>5. CASE \E s \in Slots : Control(s)
    <3>1. PICK s \in Slots : Control(s)
      BY <2>5
    <3>2. notice' = notice /\ Live(s)
      BY <3>1 DEF Control, ReadBit, Continue, Stopped, Live
    <3>3. notice.at # "announce"
      BY <3>2 DEF HandoverInv, Protocol, NoControl
    <3>4. Owner = "control"
      BY <3>2, <3>3 DEF Owner
    <3>5. QED BY <3>2, <3>3, <3>4 DEF Owner
  <2>6. CASE Tick
    <3>1. notice'.at = notice.at
      BY <2>6 DEF Tick, At
    <3>2. \A s \in Slots : Live(s)' <=> Live(s)
      BY <2>6 DEF Tick, Live, HandoverInv, TypeOK, Controls
    <3>3. QED BY <3>1, <3>2 DEF Owner
  <2>7. QED BY <2>1, <2>2, <2>3, <2>4, <2>5, <2>6 DEF Next
<1>3. QED
  BY <1>1, <1>2, HandoverInvariant, PTL DEF Spec, HardwareHasOneUser, Hardware!Spec
=============================================================================
