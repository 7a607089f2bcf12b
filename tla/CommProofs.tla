------------------------------ MODULE CommProofs ------------------------------
(***************************************************************************)
(* Proofs about Comm: no clock pulse is lost or counted twice, and what    *)
(* arrives is what was sent, for a message of any length and content, if   *)
(* the worker is as quick between the messages as pi-comm.c takes for      *)
(* granted.                                                                *)
(***************************************************************************)
EXTENDS Comm, TLAPS

\* Where the worker can be, and at which bit, for each place of the master; a
\* worker that has panicked is at none of them.
Together ==
  /\ master \in {"off", "wait_ready"} =>
       /\ sclk = 0 /\ wbit = 1
       /\ \/ worker \in {"off", "start"} /\ ready = 0
          \/ worker = "await_high" /\ ready = 1
  /\ master \in {"put", "rise"} => sclk = 0 /\ worker = "await_high" /\ wbit = mbit /\ ready = 1
  /\ master = "hold" => sclk = 1 /\ worker \in WorkerReceives /\ wbit = mbit /\ ready = 1
  /\ master = "low" =>
       /\ sclk = 0
       /\ \/ worker = "await_low" /\ wbit = mbit /\ ready = 1
          \/ worker = "await_high" /\ wbit = mbit + 1 /\ ready = 1
          \/ worker = "busy" /\ mbit = Last /\ ready = 1
          \/ worker = "print" /\ mbit = Last /\ ready = 0
  /\ master = "wait_busy" =>
       /\ sclk = 0
       /\ \/ worker = "busy" /\ ready = 1
          \/ worker = "print" /\ ready = 0
  /\ master = "wait_again" =>
       /\ sclk = 0
       /\ \/ worker = "print" /\ ready = 0
          \/ worker = "crc"
          \/ worker \in {"put", "high"} /\ wbit = 1
  /\ master = "raise" =>
       /\ sclk = 0
       /\ \/ worker = "crc" /\ mbit = 1
          \/ worker \in {"put", "high"} /\ wbit = mbit
  /\ master = "sample" =>
       /\ sclk = 1
       /\ \/ worker = "crc" /\ mbit = 1
          \/ worker \in WorkerSends /\ wbit = mbit
  /\ master = "drop" => sclk = 1 /\ worker = "low" /\ wbit = mbit
  /\ master = "gap" =>
       /\ sclk = 0
       /\ \/ worker = "low" /\ wbit = mbit
          \/ worker \in {"put", "high"} /\ wbit = mbit + 1
          \/ worker = "done" /\ mbit = Last
  /\ master \in {"done", "dead"} => sclk = 0 /\ worker \in WorkerSends \cup {"done"}

\* A worker dies only while it receives, and a master that goes on finds it alive.
DeadWorker ==
  worker = "dead" => ready = 1 /\ master \in MasterSends \cup {"wait_busy"}

\* What is on the wires while it counts.
OnTheWires ==
  /\ master \in {"rise", "hold"} => mosi = Bit(mbit)
  /\ worker \in {"high", "low"} => miso = Bit(wbit)

\* What has been misread, and who knows.
Checked ==
  /\ Faithful
  /\ worker \notin WorkerReceives \cup {"dead"} => wwrong = {}
  /\ master = "done" => mwrong = {}

IInv == /\ TypeOK
        /\ worker # "dead" => Together
        /\ DeadWorker /\ OnTheWires /\ Checked

LEMMA LastType == Last \in Nat /\ Last > 1 /\ 8 * HeaderBytes # Last
  BY CommConstants DEF Last

LEMMA BitType == ASSUME NEW k PROVE Bit(k) \in {0, 1}
  BY DEF Bit

\* The invariant holds before either side has started.
LEMMA InitIInv == Init => IInv
  <1> SUFFICES ASSUME Init PROVE IInv
    OBVIOUS
  <1>1. TypeOK
    BY LastType, CommConstants DEF Init, TypeOK
  <1>2. Together /\ DeadWorker /\ OnTheWires /\ Checked
    BY DEF Init, Together, DeadWorker, OnTheWires, Checked, Faithful, WorkerReceives
  <1> QED
    BY <1>1, <1>2 DEF IInv

\* What a step has to establish, once it is known to keep the types.
LEMMA Keeps ==
  ASSUME TypeOK', worker' # "dead" => Together', DeadWorker', OnTheWires', Checked'
  PROVE  IInv'
  BY DEF IInv

\* Every step of the master keeps the invariant.
LEMMA MasterIInv ==
  ASSUME IInv, MasterStep, CrcInTime
  PROVE  IInv'
  <1> USE DEF MasterSends, MasterReceives, WorkerSends, WorkerReceives
  <1>0. TypeOK /\ (worker # "dead" => Together) /\ DeadWorker /\ OnTheWires /\ Checked
        /\ Last \in Nat /\ Last > 1 /\ 8 * HeaderBytes # Last /\ 1 \in 1 .. Last
        /\ \A k : Bit(k) \in {0, 1}
    BY LastType, BitType DEF IInv
  <1>u. /\ UNCHANGED wires <=> UNCHANGED <<sclk, mosi, miso, ready>>
        /\ UNCHANGED workerVars <=> UNCHANGED <<worker, wbit, wwrong>>
    BY DEF wires, workerVars
  <1>1. ASSUME MasterInit PROVE IInv'
    <2>1. TypeOK'
      BY <1>0, <1>u, <1>1 DEF MasterInit, TypeOK
    <2>2. worker' # "dead" => Together'
      BY <1>0, <1>u, <1>1 DEF MasterInit, TypeOK, Together, DeadWorker, DelayOver
    <2>3. DeadWorker' /\ OnTheWires' /\ Checked'
      BY <1>0, <1>u, <1>1 DEF MasterInit, TypeOK, Together, DeadWorker, OnTheWires, Checked, Faithful
    <2> QED
      BY <2>1, <2>2, <2>3, Keeps
  <1>2. ASSUME SeeReady PROVE IInv'
    <2>1. TypeOK'
      BY <1>0, <1>u, <1>2 DEF SeeReady, TypeOK
    <2>2. worker' # "dead" => Together'
      BY <1>0, <1>u, <1>2 DEF SeeReady, TypeOK, Together, DeadWorker, DelayOver
    <2>3. DeadWorker' /\ OnTheWires' /\ Checked'
      BY <1>0, <1>u, <1>2 DEF SeeReady, TypeOK, Together, DeadWorker, OnTheWires, Checked, Faithful
    <2> QED
      BY <2>1, <2>2, <2>3, Keeps
  <1>3. ASSUME SeeBusy PROVE IInv'
    <2>1. TypeOK'
      BY <1>0, <1>u, <1>3 DEF SeeBusy, TypeOK
    <2>2. worker' # "dead" => Together'
      BY <1>0, <1>u, <1>3 DEF SeeBusy, TypeOK, Together, DeadWorker, DelayOver
    <2>3. DeadWorker' /\ OnTheWires' /\ Checked'
      BY <1>0, <1>u, <1>3 DEF SeeBusy, DeadWorker, OnTheWires, Checked, Faithful
    <2> QED
      BY <2>1, <2>2, <2>3, Keeps
  <1>4. ASSUME PutMosi PROVE IInv'
    <2>1. TypeOK'
      BY <1>0, <1>u, <1>4 DEF PutMosi, TypeOK
    <2>2. worker' # "dead" => Together'
      BY <1>0, <1>u, <1>4 DEF PutMosi, TypeOK, Together, DeadWorker, DelayOver
    <2>3. DeadWorker' /\ OnTheWires' /\ Checked'
      BY <1>0, <1>u, <1>4 DEF PutMosi, TypeOK, Together, DeadWorker, OnTheWires, Checked, Faithful
    <2> QED
      BY <2>1, <2>2, <2>3, Keeps
  <1>5. ASSUME Rise PROVE IInv'
    <2>1. TypeOK'
      BY <1>0, <1>u, <1>5 DEF Rise, TypeOK
    <2>2. worker' # "dead" => Together'
      BY <1>0, <1>u, <1>5 DEF Rise, TypeOK, Together, DeadWorker, DelayOver
    <2>3. DeadWorker' /\ OnTheWires' /\ Checked'
      BY <1>0, <1>u, <1>5 DEF Rise, TypeOK, Together, DeadWorker, OnTheWires, Checked, Faithful
    <2> QED
      BY <2>1, <2>2, <2>3, Keeps
  <1>6. ASSUME Fall PROVE IInv'
    <2>1. TypeOK'
      BY <1>0, <1>u, <1>6 DEF Fall, TypeOK
    <2>2. worker' # "dead" => Together'
      BY <1>0, <1>u, <1>6 DEF Fall, TypeOK, Together, DeadWorker, DelayOver
    <2>3. DeadWorker' /\ OnTheWires' /\ Checked'
      BY <1>0, <1>u, <1>6 DEF Fall, TypeOK, Together, DeadWorker, OnTheWires, Checked, Faithful
    <2> QED
      BY <2>1, <2>2, <2>3, Keeps
  <1>7. ASSUME NextToSend PROVE IInv'
    <2>1. TypeOK'
      <3>1. mbit' \in 1 .. Last
        BY <1>0, <1>7 DEF NextToSend, TypeOK
      <3> QED
        BY <1>0, <1>u, <1>7, <3>1 DEF NextToSend, TypeOK
    <2>2. worker' # "dead" => Together'
      BY <1>0, <1>u, <1>7 DEF NextToSend, TypeOK, Together, DeadWorker, DelayOver
    <2>3. DeadWorker' /\ OnTheWires' /\ Checked'
      BY <1>0, <1>u, <1>7 DEF NextToSend, TypeOK, Together, DeadWorker, OnTheWires, Checked, Faithful
    <2> QED
      BY <2>1, <2>2, <2>3, Keeps
  <1>8. ASSUME MasterSample PROVE IInv'
    <2>1. /\ master = "sample" /\ DelayOver /\ master' = "drop"
          /\ UNCHANGED <<sclk, mosi, miso, ready, mbit, worker, wbit, wwrong>>
          /\ mwrong' \in {mwrong, mwrong \cup {mbit}} /\ mbit \in 1 .. Last
          /\ (faults' = faults \/ (faults < MaxFaults /\ faults' = faults + 1))
          /\ (miso = Bit(mbit) /\ faults' = faults => mwrong' = mwrong)
      BY <1>0, <1>u, <1>8 DEF MasterSample, Misread, TypeOK
    <2>2. faults' \in 0 .. MaxFaults /\ (faults' = 0 => faults = 0 /\ faults' = faults)
      BY <1>0, <2>1, CommConstants DEF TypeOK
    <2>3. TypeOK'
      BY <1>0, <2>1, <2>2 DEF TypeOK
    <2>4. worker # "dead" /\ worker = "low" /\ wbit = mbit
      BY <1>0, <2>1 DEF Together, DeadWorker, DelayOver
    <2>5. Together'
      BY <1>0, <2>1, <2>4 DEF Together
    <2>6. DeadWorker' /\ OnTheWires' /\ Checked'
      BY <1>0, <2>1, <2>2, <2>4 DEF DeadWorker, OnTheWires, Checked, Faithful
    <2> QED
      BY <2>3, <2>5, <2>6, Keeps
  <1>9. ASSUME NextToReceive PROVE IInv'
    <2>1. /\ master = "gap" /\ DelayOver
          /\ UNCHANGED <<sclk, mosi, miso, ready, mwrong, worker, wbit, wwrong, faults>>
          /\ \/ mbit # Last /\ master' = "raise" /\ mbit' = mbit + 1
             \/ mbit' = mbit /\ master' = "dead"
             \/ mbit' = mbit /\ master' = "done" /\ mwrong = {} /\ mbit = Last
      BY <1>0, <1>u, <1>9 DEF NextToReceive, Received, Good
    <2>2. TypeOK'
      BY <1>0, <2>1 DEF TypeOK
    <2>3. worker # "dead" /\ ((worker = "high" /\ wbit = mbit + 1) \/ (worker = "done" /\ mbit = Last))
      BY <1>0, <2>1 DEF Together, DeadWorker, DelayOver
    <2>4. Together'
      BY <1>0, <2>1, <2>3 DEF Together, TypeOK
    <2>5. DeadWorker' /\ OnTheWires' /\ Checked'
      BY <1>0, <2>1, <2>3 DEF DeadWorker, OnTheWires, Checked, Faithful
    <2> QED
      BY <2>2, <2>4, <2>5, Keeps
  <1> QED
    BY <1>1, <1>2, <1>3, <1>4, <1>5, <1>6, <1>7, <1>8, <1>9 DEF MasterStep

\* Every step of the worker keeps the invariant.
LEMMA WorkerIInv ==
  ASSUME IInv, WorkerStep, PrintIsSlow
  PROVE  IInv'
  <1> USE DEF MasterSends, MasterReceives, WorkerSends, WorkerReceives
  <1>0. TypeOK /\ (worker # "dead" => Together) /\ DeadWorker /\ OnTheWires /\ Checked
        /\ Last \in Nat /\ Last > 1 /\ 8 * HeaderBytes # Last /\ 1 \in 1 .. Last
        /\ \A k : Bit(k) \in {0, 1}
    BY LastType, BitType DEF IInv
  <1>u. /\ UNCHANGED wires <=> UNCHANGED <<sclk, mosi, miso, ready>>
        /\ UNCHANGED masterVars <=> UNCHANGED <<master, mbit, mwrong>>
    BY DEF wires, masterVars
  <1>1. ASSUME WorkerInit PROVE IInv'
    <2>1. TypeOK'
      BY <1>0, <1>u, <1>1 DEF WorkerInit, TypeOK
    <2>2. worker' # "dead" => Together'
      BY <1>0, <1>u, <1>1 DEF WorkerInit, TypeOK, Together, DeadWorker
    <2>3. DeadWorker' /\ OnTheWires' /\ Checked'
      BY <1>0, <1>u, <1>1 DEF WorkerInit, TypeOK, Together, DeadWorker, OnTheWires, Checked, Faithful
    <2> QED
      BY <2>1, <2>2, <2>3, Keeps
  <1>2. ASSUME SignalReady PROVE IInv'
    <2>1. TypeOK'
      BY <1>0, <1>u, <1>2 DEF SignalReady, TypeOK
    <2>2. worker' # "dead" => Together'
      BY <1>0, <1>u, <1>2 DEF SignalReady, TypeOK, Together, DeadWorker
    <2>3. DeadWorker' /\ OnTheWires' /\ Checked'
      BY <1>0, <1>u, <1>2 DEF SignalReady, TypeOK, Together, DeadWorker, OnTheWires, Checked, Faithful
    <2> QED
      BY <2>1, <2>2, <2>3, Keeps
  <1>3. ASSUME SeeClock PROVE IInv'
    <2>1. TypeOK'
      BY <1>0, <1>u, <1>3 DEF SeeClock, TypeOK
    <2>2. worker' # "dead" => Together'
      BY <1>0, <1>u, <1>3 DEF SeeClock, TypeOK, Together, DeadWorker
    <2>3. DeadWorker' /\ OnTheWires' /\ Checked'
      BY <1>0, <1>u, <1>3 DEF SeeClock, TypeOK, Together, DeadWorker, OnTheWires, Checked, Faithful
    <2> QED
      BY <2>1, <2>2, <2>3, Keeps
  <1>4. ASSUME SignalBusy PROVE IInv'
    <2>1. TypeOK'
      BY <1>0, <1>u, <1>4 DEF SignalBusy, TypeOK
    <2>2. worker' # "dead" => Together'
      BY <1>0, <1>u, <1>4 DEF SignalBusy, TypeOK, Together, DeadWorker
    <2>3. DeadWorker' /\ OnTheWires' /\ Checked'
      BY <1>0, <1>u, <1>4 DEF SignalBusy, TypeOK, Together, DeadWorker, OnTheWires, Checked, Faithful
    <2> QED
      BY <2>1, <2>2, <2>3, Keeps
  <1>5. ASSUME ComputeCrc PROVE IInv'
    <2>1. TypeOK'
      BY <1>0, <1>u, <1>5 DEF ComputeCrc, TypeOK
    <2>2. worker' # "dead" => Together'
      BY <1>0, <1>u, <1>5 DEF ComputeCrc, TypeOK, Together, DeadWorker
    <2>3. DeadWorker' /\ OnTheWires' /\ Checked'
      BY <1>0, <1>u, <1>5 DEF ComputeCrc, TypeOK, Together, DeadWorker, OnTheWires, Checked, Faithful
    <2> QED
      BY <2>1, <2>2, <2>3, Keeps
  <1>6. ASSUME PutMiso PROVE IInv'
    <2>1. TypeOK'
      BY <1>0, <1>u, <1>6 DEF PutMiso, TypeOK
    <2>2. worker' # "dead" => Together'
      BY <1>0, <1>u, <1>6 DEF PutMiso, TypeOK, Together, DeadWorker
    <2>3. DeadWorker' /\ OnTheWires' /\ Checked'
      BY <1>0, <1>u, <1>6 DEF PutMiso, TypeOK, Together, DeadWorker, OnTheWires, Checked, Faithful
    <2> QED
      BY <2>1, <2>2, <2>3, Keeps
  <1>7. ASSUME NextSent PROVE IInv'
    <2>1. TypeOK'
      <3>1. wbit' \in 1 .. Last
        BY <1>0, <1>7 DEF NextSent, TypeOK
      <3> QED
        BY <1>0, <1>u, <1>7, <3>1 DEF NextSent, TypeOK
    <2>2. worker' # "dead" => Together'
      BY <1>0, <1>u, <1>7 DEF NextSent, TypeOK, Together, DeadWorker
    <2>3. DeadWorker' /\ OnTheWires' /\ Checked'
      BY <1>0, <1>u, <1>7 DEF NextSent, TypeOK, Together, DeadWorker, OnTheWires, Checked, Faithful
    <2> QED
      BY <2>1, <2>2, <2>3, Keeps
  <1>8. ASSUME WorkerSample PROVE IInv'
    <2>1. /\ worker = "sample" /\ worker' = "await_low"
          /\ UNCHANGED <<sclk, mosi, miso, ready, wbit, master, mbit, mwrong>>
          /\ wwrong' \in {wwrong, wwrong \cup {wbit}} /\ wbit \in 1 .. Last
          /\ (faults' = faults \/ (faults < MaxFaults /\ faults' = faults + 1))
          /\ (mosi = Bit(wbit) /\ faults' = faults => wwrong' = wwrong)
      BY <1>0, <1>u, <1>8 DEF WorkerSample, Misread, TypeOK
    <2>2. faults' \in 0 .. MaxFaults /\ (faults' = 0 => faults = 0 /\ faults' = faults)
      BY <1>0, <2>1, CommConstants DEF TypeOK
    <2>3. TypeOK'
      BY <1>0, <2>1, <2>2 DEF TypeOK
    <2>4. master = "hold" /\ wbit = mbit
      BY <1>0, <2>1 DEF Together, TypeOK
    <2>5. Together'
      BY <1>0, <2>1, <2>4 DEF Together
    <2>6. DeadWorker' /\ OnTheWires' /\ Checked'
      BY <1>0, <2>1, <2>2, <2>4 DEF DeadWorker, OnTheWires, Checked, Faithful
    <2> QED
      BY <2>3, <2>5, <2>6, Keeps
  <1>9. ASSUME NextReceived PROVE IInv'
    <2>1. /\ worker = "await_low" /\ sclk = 0
          /\ UNCHANGED <<sclk, mosi, miso, ready, master, mbit, mwrong, wwrong, faults>>
          /\ \/ wbit # Last /\ worker' = "await_high" /\ wbit' = wbit + 1
             \/ wbit' = wbit /\ worker' = "dead"
             \/ wbit' = wbit /\ worker' = "busy" /\ wwrong = {} /\ wbit = Last
      BY <1>0, <1>u, <1>9 DEF NextReceived, Received, Good
    <2>2. TypeOK'
      BY <1>0, <2>1 DEF TypeOK
    <2>3. master = "low" /\ wbit = mbit /\ ready = 1
      BY <1>0, <2>1 DEF Together, TypeOK
    <2>4. worker' # "dead" => Together'
      BY <1>0, <2>1, <2>3 DEF Together, TypeOK
    <2>5. DeadWorker' /\ OnTheWires' /\ Checked'
      BY <1>0, <2>1, <2>3 DEF DeadWorker, OnTheWires, Checked, Faithful
    <2> QED
      BY <2>2, <2>4, <2>5, Keeps
  <1> QED
    BY <1>1, <1>2, <1>3, <1>4, <1>5, <1>6, <1>7, <1>8, <1>9 DEF WorkerStep

LEMMA StutterIInv == IInv /\ UNCHANGED vars => IInv'
  <1> SUFFICES ASSUME IInv, UNCHANGED vars PROVE IInv'
    OBVIOUS
  <1>1. UNCHANGED <<sclk, mosi, miso, ready, master, mbit, mwrong, worker, wbit, wwrong, faults>>
    BY DEF vars, wires, masterVars, workerVars
  <1> QED
    BY <1>1 DEF IInv, TypeOK, Together, DeadWorker, OnTheWires, Checked, Faithful

LEMMA Inductive ==
  ASSUME CrcInTime, PrintIsSlow, IInv, [Next]_vars
  PROVE  IInv'
  BY MasterIInv, WorkerIInv, StutterIInv DEF Next

\* The variables keep their types: neither side's index leaves the message.
THEOREM TypeCorrect ==
  ASSUME CrcInTime, PrintIsSlow
  PROVE  Spec => []TypeOK
  <1>1. IInv => TypeOK
    BY DEF IInv
  <1> QED
    BY <1>1, InitIInv, Inductive, PTL DEF Spec

\* Every pulse of the clock finds the worker in the same transfer and at the same
\* bit (the loops of comm_master_send_byte and its three companions), whatever
\* the message and whatever is misread, if a checksum is computed within a half
\* period and the pulse of busy lasts.
THEOREM ClockInStep ==
  ASSUME CrcInTime, PrintIsSlow
  PROVE  Spec => []InStep
  <1>1. IInv => InStep
    BY DEF IInv, TypeOK, Together, InStep, MasterSends, MasterReceives, WorkerReceives, WorkerSends
  <1> QED
    BY <1>1, InitIInv, Inductive, PTL DEF Spec

\* Without misread bits both messages arrive as they were sent.
THEOREM BitsArrive ==
  ASSUME CrcInTime, PrintIsSlow
  PROVE  Spec => []Faithful
  <1>1. IInv => Faithful
    BY DEF IInv, Checked
  <1> QED
    BY <1>1, InitIInv, Inductive, PTL DEF Spec

\* A side that completes the handshake has had no bit of the other's message
\* wrong, and the master completes only if the worker has not either.
THEOREM CompletionIsAgreed ==
  ASSUME CrcInTime, PrintIsSlow
  PROVE  Spec => []DoneMeansAgreed
  <1>1. IInv => DoneMeansAgreed
    BY DEF IInv, DeadWorker, Together, Checked, DoneMeansAgreed, MasterSends, WorkerSends, WorkerReceives
  <1> QED
    BY <1>1, InitIInv, Inductive, PTL DEF Spec
=============================================================================
