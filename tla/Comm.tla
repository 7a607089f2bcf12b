--------------------------------- MODULE Comm ---------------------------------
(***************************************************************************)
(* The link between two Pis (pi-comm.c): four GPIO wires, of which the     *)
(* master drives SCLK and MOSI, the worker MISO and READY.  Nothing times  *)
(* out and nothing holds the master's clock up: after each edge it turns   *)
(* round in an empty loop and takes for granted that the worker follows.   *)
(*                                                                         *)
(* The program on either side is comm_handshake, the only one there is:    *)
(* the master sends a SYNC when the worker is ready, the worker replies    *)
(* with one.  A SYNC is 17 bytes, and the same each time.                  *)
(***************************************************************************)
EXTENDS Integers, Sequences

CONSTANTS
  Message,      \* the bytes of a SYNC as they go over the wire
  MagicBytes, LengthBytes,  \* where in it magic and payload_len are
  HeaderBytes,  \* sizeof(CommHeader); the checksum follows
  MaxFaults,    \* how many bits may be misread
  CrcInTime,    \* the worker computes a checksum within a half period
  PrintIsSlow   \* its printk between busy and ready outlasts the master's poll

ASSUME CommConstants ==
  /\ Message \in Seq(0 .. 255)
  /\ HeaderBytes \in 1 .. (Len(Message) - 1)
  /\ MagicBytes \subseteq 1 .. HeaderBytes /\ LengthBytes \subseteq 1 .. HeaderBytes
  /\ \A n \in LengthBytes : Message[n] = 0
  /\ MaxFaults \in Nat
  /\ CrcInTime \in BOOLEAN /\ PrintIsSlow \in BOOLEAN

VARIABLES
  sclk, mosi, miso, ready,  \* the wires; one that nobody drives yet is low
  master, worker,  \* where the two programs are
  mbit, wbit,      \* the bit of the message each has come to
  mwrong, wwrong,  \* the bits of the message received that were not the ones sent
  faults

wires == <<sclk, mosi, miso, ready>>
masterVars == <<master, mbit, mwrong>>
workerVars == <<worker, wbit, wwrong>>
vars == <<wires, masterVars, workerVars, faults>>

Last == 8 * Len(Message)
BitsOf(bytes) == {k \in 1 .. Last : (k - 1) \div 8 + 1 \in bytes}

\* Bit k of the message: bytes in their order, each from its highest bit down.
Bit(k) ==
  IF (Message[(k - 1) \div 8 + 1] \div 2 ^ (7 - ((k - 1) % 8))) % 2 = 1 THEN 1 ELSE 0

MasterSends == {"put", "rise", "hold", "low"}
MasterReceives == {"raise", "sample", "drop", "gap"}
WorkerReceives == {"await_high", "sample", "await_low"}
WorkerSends == {"put", "high", "low"}

TypeOK ==
  /\ sclk \in {0, 1} /\ mosi \in {0, 1} /\ miso \in {0, 1} /\ ready \in {0, 1}
  /\ master \in {"off", "wait_ready", "wait_busy", "wait_again", "done", "dead"}
                  \cup MasterSends \cup MasterReceives
  /\ worker \in {"off", "start", "busy", "print", "crc", "done", "dead"}
                  \cup WorkerSends \cup WorkerReceives
  /\ mbit \in 1 .. Last /\ wbit \in 1 .. Last
  /\ mwrong \subseteq 1 .. Last /\ wwrong \subseteq 1 .. Last
  /\ faults \in 0 .. MaxFaults

Init ==
  /\ sclk = 0 /\ mosi = 0 /\ miso = 0 /\ ready = 0
  /\ master = "off" /\ worker = "off"
  /\ mbit = 1 /\ wbit = 1
  /\ mwrong = {} /\ wwrong = {}
  /\ faults = 0

-----------------------------------------------------------------------------
\* comm_recv_msg.

\* The bits received so far, those in wrong being other than the ones sent, are
\* as many as it will read: a bad magic number, or a payload where there is
\* room for none, ends it after the header.
Received(k, wrong) ==
  \/ k = Last
  \/ k = 8 * HeaderBytes /\ wrong \cap (BitsOf(MagicBytes) \cup BitsOf(LengthBytes)) # {}

\* It returns 0 and the type is MSG_SYNC.  The checksum sees what is wrong: CRC-32
\* detects any few bits in a message as short as this.
Good(wrong) == wrong = {}

\* A read of a wire on which there is v, for bit k: what is wrong with it, if the
\* reader may misread it.
Misread(v, k, wrong, wrong1) ==
  \/ /\ wrong1 = IF v = Bit(k) THEN wrong ELSE wrong \cup {k}
     /\ UNCHANGED faults
  \/ /\ wrong1 = IF v = Bit(k) THEN wrong \cup {k} ELSE wrong
     /\ faults < MaxFaults /\ faults' = faults + 1

-----------------------------------------------------------------------------
\* The master.

\* The delay loop after an edge is over: the worker, when it only has to look at
\* a wire or to set one, has done so.
DelayOver ==
  ~ \/ worker \in {"await_high", "high"} /\ sclk = 1
    \/ worker \in {"await_low", "low"} /\ sclk = 0
    \/ worker \in {"sample", "put"}
    \/ worker = "crc" /\ CrcInTime

\* comm_init.
MasterInit ==
  /\ master = "off"
  /\ master' = "wait_ready"
  /\ sclk' = 0 /\ mosi' = 0
  /\ UNCHANGED <<miso, ready, mbit, mwrong, workerVars, faults>>

\* comm_wait_ready, the first time and, after the pulse of busy, the second.
SeeReady ==
  /\ ready = 1
  /\ \/ master = "wait_ready" /\ master' = "put"
     \/ master = "wait_again" /\ master' = "raise"
  /\ mbit' = 1 /\ mwrong' = {}
  /\ UNCHANGED <<wires, workerVars, faults>>

\* Slip: the worker is taken to have become busy.
SeeBusyDropped ==
  /\ master = "wait_busy"
  /\ master' = "wait_again"
  /\ UNCHANGED <<wires, mbit, mwrong, workerVars, faults>>

SeeBusy ==
  /\ master = "wait_busy" /\ ready = 0
  /\ master' = "wait_again"
  /\ UNCHANGED <<wires, mbit, mwrong, workerVars, faults>>

PutMosi ==
  /\ master = "put"
  /\ mosi' = Bit(mbit)
  /\ master' = "rise"
  /\ UNCHANGED <<sclk, miso, ready, mbit, mwrong, workerVars, faults>>

\* The edges of the clock, in comm_master_send_byte and comm_master_recv_byte.
Rise ==
  /\ \/ master = "rise" /\ master' = "hold"
     \/ master = "raise" /\ master' = "sample"
  /\ sclk' = 1
  /\ UNCHANGED <<mosi, miso, ready, mbit, mwrong, workerVars, faults>>

Fall ==
  /\ \/ master = "hold" /\ DelayOver /\ master' = "low"
     \/ master = "drop" /\ master' = "gap"
  /\ sclk' = 0
  /\ UNCHANGED <<mosi, miso, ready, mbit, mwrong, workerVars, faults>>

\* Slip: the wire is read without the delay.
MasterSampleEarly ==
  /\ master = "sample"
  /\ Misread(miso, mbit, mwrong, mwrong')
  /\ master' = "drop"
  /\ UNCHANGED <<wires, mbit, workerVars>>

MasterSample ==
  /\ master = "sample" /\ DelayOver
  /\ Misread(miso, mbit, mwrong, mwrong')
  /\ master' = "drop"
  /\ UNCHANGED <<wires, mbit, workerVars>>

\* Then the master looks for the pulse of busy.
NextToSend ==
  /\ master = "low" /\ DelayOver
  /\ IF mbit < Last THEN master' = "put" /\ mbit' = mbit + 1
                    ELSE master' = "wait_busy" /\ UNCHANGED mbit
  /\ UNCHANGED <<wires, mwrong, workerVars, faults>>

\* Slip: whatever was received, the handshake is complete.
NextToReceiveUnchecked ==
  /\ master = "gap" /\ DelayOver
  /\ IF Received(mbit, mwrong) THEN master' = "done" /\ UNCHANGED mbit
     ELSE master' = "raise" /\ mbit' = mbit + 1
  /\ UNCHANGED <<wires, mwrong, workerVars, faults>>

\* Slip: one bit too few.
NextToReceiveOneLess ==
  /\ master = "gap" /\ DelayOver
  /\ IF Received(mbit + 1, mwrong)
       THEN master' = (IF Good(mwrong) THEN "done" ELSE "dead") /\ UNCHANGED mbit
       ELSE master' = "raise" /\ mbit' = mbit + 1
  /\ UNCHANGED <<wires, mwrong, workerVars, faults>>

NextToReceive ==
  /\ master = "gap" /\ DelayOver
  /\ IF Received(mbit, mwrong)
       THEN master' = (IF Good(mwrong) THEN "done" ELSE "dead") /\ UNCHANGED mbit
       ELSE master' = "raise" /\ mbit' = mbit + 1
  /\ UNCHANGED <<wires, mwrong, workerVars, faults>>

MasterStep ==
  \/ MasterInit \/ SeeReady \/ SeeBusy \/ PutMosi \/ Rise \/ Fall \/ MasterSample
  \/ NextToSend \/ NextToReceive

-----------------------------------------------------------------------------
\* The worker.

\* comm_init.
WorkerInit ==
  /\ worker = "off"
  /\ worker' = "start"
  /\ miso' = 0 /\ ready' = 0
  /\ UNCHANGED <<sclk, mosi, masterVars, wbit, wwrong, faults>>

\* comm_signal_ready, before the SYNC and, when printk has ended, before the reply.
SignalReady ==
  /\ \/ worker = "start" /\ worker' = "await_high"
     \/ /\ worker = "print" /\ worker' = "crc"
        /\ PrintIsSlow => master \notin {"low", "wait_busy"}
  /\ ready' = 1
  /\ UNCHANGED <<sclk, mosi, miso, masterVars, wbit, wwrong, faults>>

SeeClock ==
  /\ \/ worker = "await_high" /\ sclk = 1 /\ worker' = "sample"
     \/ worker = "high" /\ sclk = 1 /\ worker' = "low"
  /\ UNCHANGED <<wires, masterVars, wbit, wwrong, faults>>

WorkerSample ==
  /\ worker = "sample"
  /\ Misread(mosi, wbit, wwrong, wwrong')
  /\ worker' = "await_low"
  /\ UNCHANGED <<wires, masterVars, wbit>>

NextReceived ==
  /\ worker = "await_low" /\ sclk = 0
  /\ IF Received(wbit, wwrong)
       THEN worker' = (IF Good(wwrong) THEN "busy" ELSE "dead") /\ UNCHANGED wbit
       ELSE worker' = "await_high" /\ wbit' = wbit + 1
  /\ UNCHANGED <<wires, masterVars, wwrong, faults>>

\* Slip: the pulse of busy is left out.
SignalBusyDropped ==
  /\ worker = "busy"
  /\ worker' = "print"
  /\ UNCHANGED <<wires, masterVars, wbit, wwrong, faults>>

SignalBusy ==
  /\ worker = "busy"
  /\ worker' = "print"
  /\ ready' = 0
  /\ UNCHANGED <<sclk, mosi, miso, masterVars, wbit, wwrong, faults>>

\* comm_send_msg up to the first bit.
ComputeCrc ==
  /\ worker = "crc"
  /\ worker' = "put"
  /\ wbit' = 1
  /\ UNCHANGED <<wires, masterVars, wwrong, faults>>

PutMiso ==
  /\ worker = "put"
  /\ miso' = Bit(wbit)
  /\ worker' = "high"
  /\ UNCHANGED <<sclk, mosi, ready, masterVars, wbit, wwrong, faults>>

NextSent ==
  /\ worker = "low" /\ sclk = 0
  /\ IF wbit < Last THEN worker' = "put" /\ wbit' = wbit + 1
                    ELSE worker' = "done" /\ UNCHANGED wbit
  /\ UNCHANGED <<wires, masterVars, wwrong, faults>>

WorkerStep ==
  \/ WorkerInit \/ SignalReady \/ SeeClock \/ WorkerSample \/ NextReceived \/ SignalBusy
  \/ ComputeCrc \/ PutMiso \/ NextSent

Next == MasterStep \/ WorkerStep

Spec == Init /\ [][Next]_vars

\* Each Pi runs its program.
FairSpec == Spec /\ WF_vars(MasterStep) /\ WF_vars(WorkerStep)

-----------------------------------------------------------------------------
\* What must hold.

\* A clock pulse finds the worker in the transfer that the master is in and at the
\* same bit, so that none is lost or counted twice (the bit loops of pi-comm.c);
\* or about to put the first bit, or dead of a panic.
InStep ==
  sclk = 1 /\ worker # "dead" =>
    /\ master \in MasterSends => worker \in WorkerReceives
    /\ master \in MasterReceives => worker \in WorkerSends \cup {"crc"}
    /\ mbit = IF worker = "crc" THEN 1 ELSE wbit

\* What arrives is what was sent, as long as no bit is misread.
Faithful == faults = 0 => mwrong = {} /\ wwrong = {}

\* In whichever order the Pis start, both sides complete if no bit is misread.
BothComplete == [](faults = 0) => <>(master = "done" /\ worker = "done")

\* A master that reports completion leaves no worker behind that does not.
DoneTogether == master = "done" ~> worker = "done"

\* Nobody completes a handshake in which either side has misread a bit that it was
\* sent ("handshake failed" is a panic on the side that finds out).
DoneMeansAgreed == /\ master = "done" => mwrong = {} /\ wwrong = {}
                   /\ worker = "done" => wwrong = {}
=============================================================================
