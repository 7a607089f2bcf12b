-------------------------------- MODULE Boot --------------------------------
(***************************************************************************)
(* The serial bootloader: get_code in libpi/boot/get-code.h on the Pi and  *)
(* simple_boot in libunix/put-code.c on the host, with the UART between    *)
(* them.                                                                   *)
(*                                                                         *)
(* Both directions are streams of bytes, for what goes wrong here is a     *)
(* reader that is not aligned with the words of the stream.  A word of the *)
(* protocol is the four bytes it has in boot-defs.h, in the order they are *)
(* sent; addresses, lengths and checksums are four bytes of their own.  A  *)
(* printed text is TextLen bytes, whatever it says.                        *)
(***************************************************************************)
EXTENDS Integers, Sequences

CONSTANTS
  CodeLen,     \* bytes of the program, which differ from each other
  TextLen,     \* bytes of a printed text
  MaxFaults,   \* bytes the UART may lose or corrupt on their way to the Pi
  MaxLate,     \* requests the Pi may repeat although the host is about to answer
  MaxReboots,  \* reboots of the Pi that are followed
  MaxAhead     \* bytes up to which the Pi repeats its request unread

ASSUME BootConstants ==
  /\ CodeLen \in 1 .. 4
  /\ TextLen \in Nat \ {0}
  /\ MaxFaults \in Nat /\ MaxLate \in Nat /\ MaxReboots \in Nat /\ MaxAhead \in Nat

GetProgInfo == <<"22", "22", "11", "11">>
PutProgInfo == <<"44", "44", "33", "33">>
GetCode == <<"66", "66", "55", "55">>
PutCode == <<"88", "88", "77", "77">>
BootSuccess == <<"AA", "AA", "99", "99">>
BootError == <<"CC", "CC", "BB", "BB">>
PrintString == <<"EE", "EE", "DD", "DD">>

ArmBase == <<"00", "80", "00", "00">>
CodeSize == <<"n0", "n1", "00", "00">>
Cksum == <<"c0", "c1", "c2", "c3">>
TextSize == <<"t", "00", "00", "00">>

Text == [i \in 1 .. TextLen |-> "txt"]
Program == SubSeq(<<"k1", "k2", "k3", "k4">>, 1, CodeLen)

\* What a byte of a stream may be; "bad" is a damaged one.
Bytes ==
  {"11", "22", "33", "44", "55", "66", "77", "88", "99", "AA", "BB", "CC", "DD", "EE",
   "00", "80", "n0", "n1", "c0", "c1", "c2", "c3", "t", "txt", "k1", "k2", "k3", "k4", "bad"}

\* boot_putk: PRINT_STRING, the length, the text.
Printed == PrintString \o TextSize \o Text

\* What the Pi sends when it starts: its greeting, and the first request.
Hello == Printed \o GetProgInfo

VARIABLES
  pi_pc, host_pc,
  to_host, to_pi,    \* the bytes on their way
  addr, nbytes, cksum,  \* get_code's locals; addr as seen by the collision test
  mem,               \* what the Pi has stored at addr so far
  fits,              \* the program, at ARMBASE, stays clear of the bootloader
  faults, late, reboots  \* how much of the bounds is used up

pi_vars == <<pi_pc, addr, nbytes, cksum, mem, reboots>>
host_vars == <<host_pc>>
vars == <<pi_vars, host_vars, to_host, to_pi, fits, faults, late>>

PiPC == {"listen", "info_op", "info", "get_code", "code_op", "code", "verify",
         "success", "reboot", "off", "jumped"}
HostPC == {"sync", "sync_eat", "send_info", "drain", "drain_eat", "cksum", "send_code",
           "await", "await_eat", "done", "dead"}

TypeOK ==
  /\ pi_pc \in PiPC
  /\ host_pc \in HostPC
  /\ to_host \in Seq(Bytes) /\ to_pi \in Seq(Bytes)
  /\ addr \in {"armbase", "elsewhere", "bootloader"}
  /\ nbytes \in 0 .. (CodeLen + 1)
  /\ cksum \in Seq(Bytes) /\ Len(cksum) = 4
  /\ mem \in Seq(Bytes) /\ Len(mem) <= nbytes
  /\ fits \in BOOLEAN
  /\ faults \in 0 .. MaxFaults /\ late \in 0 .. MaxLate /\ reboots \in 0 .. MaxReboots

\* The host opens the tty at some point of the Pi's first message.
Init ==
  /\ pi_pc = "listen"
  /\ host_pc = "sync"
  /\ \E k \in 1 .. Len(Hello) : to_host = SubSeq(Hello, k, Len(Hello))
  /\ to_pi = <<>>
  /\ addr = "armbase" /\ nbytes = 0 /\ cksum = Cksum /\ mem = <<>>
  /\ fits \in BOOLEAN
  /\ faults = 0 /\ late = 0 /\ reboots = 0

-----------------------------------------------------------------------------
\* Reading n bytes from the front of a stream.
Front(s, n) == SubSeq(s, 1, n)
Rest(s, n) == SubSeq(s, n + 1, Len(s))

ToHost(bytes) == to_host' = to_host \o bytes
ToPi(bytes) == to_pi' = to_pi \o bytes

\* get_uint32 and get_uint8 on the host block until the bytes are there.
HostNeeds == CASE host_pc \in {"sync_eat", "drain_eat", "await_eat"} -> 1
               [] host_pc \in {"sync", "drain", "cksum", "await"} -> 4
               [] OTHER -> 0
HostBlocked == Len(to_host) < HostNeeds

\* get_op: printed texts are emitted and skipped.
SkipPrint ==
  /\ host_pc \in {"sync", "drain", "await"}
  /\ ~HostBlocked
  /\ Front(to_host, 4) = PrintString
  /\ to_host' = Rest(to_host, Len(Printed))
  /\ UNCHANGED <<pi_vars, host_vars, to_pi, fits, faults, late>>

\* The next opcode, that is, the next four bytes, is taken off the stream.
GetOp(from) ==
  /\ host_pc = from
  /\ ~HostBlocked
  /\ Front(to_host, 4) # PrintString
  /\ to_host' = Rest(to_host, 4)

\* The single byte that is dropped in the hope of being aligned afterwards.
Eat(from, to) ==
  /\ host_pc = from
  /\ ~HostBlocked
  /\ to_host' = Rest(to_host, 1)
  /\ host_pc' = to
  /\ UNCHANGED <<pi_vars, to_pi, fits, faults, late>>

-----------------------------------------------------------------------------
\* simple_boot on the host.

\* 0. Read until there is a GET_PROG_INFO.
Sync ==
  /\ GetOp("sync")
  /\ host_pc' = IF Front(to_host, 4) = GetProgInfo THEN "send_info" ELSE "sync_eat"
  /\ UNCHANGED <<pi_vars, to_pi, fits, faults, late>>

\* Slip: nothing is dropped, so a misaligned reader stays misaligned.
SyncEatDropped ==
  /\ host_pc = "sync_eat"
  /\ host_pc' = "sync"
  /\ UNCHANGED <<pi_vars, to_host, to_pi, fits, faults, late>>

SyncEat == Eat("sync_eat", "sync")

\* 1. The address is ARMBASE, and not the parameter boot_addr.
SendInfo ==
  /\ host_pc = "send_info"
  /\ ToPi(PutProgInfo \o ArmBase \o CodeSize \o Cksum)
  /\ host_pc' = "drain"
  /\ UNCHANGED <<pi_vars, to_host, fits, faults, late>>

\* 2. Drain requests that were still on their way; 3. then there must be GET_CODE.
Drain ==
  /\ GetOp("drain")
  /\ host_pc' = CASE Front(to_host, 4) = GetProgInfo -> "drain_eat"
                  [] Front(to_host, 4) = GetCode -> "cksum"
                  [] OTHER -> "dead"
  /\ UNCHANGED <<pi_vars, to_pi, fits, faults, late>>

DrainEat == Eat("drain_eat", "drain")

CheckCksum ==
  /\ host_pc = "cksum"
  /\ ~HostBlocked
  /\ to_host' = Rest(to_host, 4)
  /\ host_pc' = IF Front(to_host, 4) = Cksum THEN "send_code" ELSE "dead"
  /\ UNCHANGED <<pi_vars, to_pi, fits, faults, late>>

\* 4. The code.
SendCode ==
  /\ host_pc = "send_code"
  /\ ToPi(PutCode \o Program)
  /\ host_pc' = "await"
  /\ UNCHANGED <<pi_vars, to_host, fits, faults, late>>

\* 5. Read until there is a BOOT_SUCCESS.
Await ==
  /\ GetOp("await")
  /\ host_pc' = IF Front(to_host, 4) = BootSuccess THEN "done" ELSE "await_eat"
  /\ UNCHANGED <<pi_vars, to_pi, fits, faults, late>>

AwaitEat == Eat("await_eat", "await")

HostStep ==
  \/ SkipPrint \/ Sync \/ SyncEat \/ SendInfo \/ Drain \/ DrainEat \/ CheckCksum
  \/ SendCode \/ Await \/ AwaitEat

-----------------------------------------------------------------------------
\* get_code on the Pi.

\* boot_get32 and boot_get8 block for as long as it takes.
PiNeeds == CASE pi_pc \in {"info_op", "code_op"} -> 4
             [] pi_pc = "info" -> 12
             [] pi_pc = "code" -> 1
             [] OTHER -> 0
PiBlocked == Len(to_pi) < PiNeeds

\* 300 ms without data: GET_PROG_INFO is sent again.
Ask(isLate) ==
  /\ pi_pc = "listen"
  /\ to_pi = <<>>
  /\ Len(to_host) + Len(GetProgInfo) <= MaxAhead
  /\ isLate = (~HostBlocked /\ host_pc \notin {"done", "dead"})
  /\ late' = IF isLate THEN late + 1 ELSE late
  /\ late' <= MaxLate
  /\ ToHost(GetProgInfo)
  /\ UNCHANGED <<pi_vars, host_vars, to_pi, fits, faults>>

HasData ==
  /\ pi_pc = "listen"
  /\ to_pi # <<>>
  /\ pi_pc' = "info_op"
  /\ UNCHANGED <<addr, nbytes, cksum, mem, reboots, host_vars, to_host, to_pi, fits, faults, late>>

\* panic prints a text that is not framed, and reboots.
GetPiOp(from, word, to) ==
  /\ pi_pc = from
  /\ ~PiBlocked
  /\ to_pi' = Rest(to_pi, 4)
  /\ IF Front(to_pi, 4) = word
       THEN pi_pc' = to /\ to_host' = to_host
       ELSE pi_pc' = "reboot" /\ ToHost(Text)
  /\ UNCHANGED <<addr, nbytes, cksum, mem, reboots, host_vars, fits, faults, late>>

InfoOp == GetPiOp("info_op", PutProgInfo, "info")

\* What a damaged address or length says is anything.
ReadInfo ==
  /\ pi_pc = "info"
  /\ ~PiBlocked
  /\ addr' \in IF Front(to_pi, 4) = ArmBase
                 THEN {IF fits THEN "armbase" ELSE "bootloader"}
                 ELSE {"elsewhere", "bootloader"}
  /\ nbytes' \in IF SubSeq(to_pi, 5, 8) = CodeSize THEN {CodeLen}
                                                   ELSE {CodeLen - 1, CodeLen + 1}
  /\ cksum' = SubSeq(to_pi, 9, 12)
  /\ mem' = <<>>
  /\ to_pi' = Rest(to_pi, 12)
  /\ pi_pc' = "get_code"
  /\ UNCHANGED <<reboots, host_vars, to_host, fits, faults, late>>

\* The collision test, and boot_err.
AskForCode ==
  /\ pi_pc = "get_code"
  /\ IF addr = "bootloader"
       THEN ToHost(Printed \o BootError) /\ pi_pc' = "reboot"
       ELSE ToHost(GetCode \o cksum) /\ pi_pc' = "code_op"
  /\ UNCHANGED <<addr, nbytes, cksum, mem, reboots, host_vars, to_pi, fits, faults, late>>

CodeOp == GetPiOp("code_op", PutCode, IF nbytes = 0 THEN "verify" ELSE "code")

StoreByte ==
  /\ pi_pc = "code"
  /\ ~PiBlocked
  /\ mem' = Append(mem, Head(to_pi))
  /\ to_pi' = Tail(to_pi)
  /\ pi_pc' = IF Len(mem) + 1 = nbytes THEN "verify" ELSE "code"
  /\ UNCHANGED <<addr, nbytes, cksum, reboots, host_vars, to_host, fits, faults, late>>

\* crc32 of what was stored: no two contents that occur here have the same.
CrcMatches == mem = Program /\ cksum = Cksum

\* Slip: the checksum is not verified.
VerifyDropped ==
  /\ pi_pc = "verify"
  /\ pi_pc' = "success" /\ to_host' = to_host
  /\ UNCHANGED <<addr, nbytes, cksum, mem, reboots, host_vars, to_pi, fits, faults, late>>

Verify ==
  /\ pi_pc = "verify"
  /\ IF CrcMatches THEN pi_pc' = "success" /\ to_host' = to_host
                   ELSE pi_pc' = "reboot" /\ ToHost(Printed \o BootError)
  /\ UNCHANGED <<addr, nbytes, cksum, mem, reboots, host_vars, to_pi, fits, faults, late>>

\* Slip: the program is started without a word to the host.
SucceedSilently ==
  /\ pi_pc = "success"
  /\ ToHost(Printed)
  /\ pi_pc' = "jumped"
  /\ UNCHANGED <<addr, nbytes, cksum, mem, reboots, host_vars, to_pi, fits, faults, late>>

\* uart_flush_tx lets everything out before notmain branches to addr.
Succeed ==
  /\ pi_pc = "success"
  /\ ToHost(Printed \o BootSuccess)
  /\ pi_pc' = "jumped"
  /\ UNCHANGED <<addr, nbytes, cksum, mem, reboots, host_vars, to_pi, fits, faults, late>>

\* The Pi comes back seconds later; of what was being sent to it, any part is gone.
Reboot ==
  /\ pi_pc = "reboot"
  /\ \E n \in 0 .. Len(to_pi) : to_pi' = Rest(to_pi, n)
  /\ IF reboots < MaxReboots
       THEN pi_pc' = "listen" /\ ToHost(Hello) /\ reboots' = reboots + 1
       ELSE pi_pc' = "off" /\ UNCHANGED <<to_host, reboots>>
  /\ UNCHANGED <<addr, nbytes, cksum, mem, host_vars, fits, faults, late>>

PiStep ==
  \/ Ask(FALSE) \/ HasData \/ InfoOp \/ ReadInfo \/ AskForCode \/ CodeOp \/ StoreByte
  \/ Verify \/ Succeed \/ Reboot

-----------------------------------------------------------------------------
\* The line, and time.

Lose(i) == to_pi' = Front(to_pi, i - 1) \o Rest(to_pi, i)
Corrupt(i) == to_pi' = [to_pi EXCEPT ![i] = "bad"]

Fault ==
  /\ faults < MaxFaults
  /\ faults' = faults + 1
  /\ \E i \in DOMAIN to_pi : Lose(i) \/ Corrupt(i)
  /\ UNCHANGED <<pi_vars, host_vars, to_host, fits, late>>

\* read returns nothing for ten seconds, and read_exact panics.
HostTimeout ==
  /\ HostBlocked
  /\ PiBlocked \/ pi_pc \in {"off", "jumped"}
  /\ host_pc' = "dead"
  /\ UNCHANGED <<pi_vars, to_host, to_pi, fits, faults, late>>

Next == HostStep \/ PiStep \/ Ask(TRUE) \/ Fault \/ HostTimeout

Spec == Init /\ [][Next]_vars

-----------------------------------------------------------------------------
\* What must hold.

\* When the host reports success, the Pi has jumped to addr, and what it has stored there
\* is the program that was sent, whatever the line did to the bytes, for these are under
\* the checksum (get-code.h, put-code.c).  addr is not: that it is the address that was
\* sent takes a line without faults, on which no reboot and no late request makes the Pi
\* read a header from anywhere but its start.
DoneMeansRunning ==
  host_pc = "done" =>
    /\ pi_pc = "jumped" /\ mem = Program
    /\ faults = 0 => addr = "armbase"

\* A program that is started is reported: no damage in earlier rounds leaves the
\* host unable to find the BOOT_SUCCESS in the stream.
JumpReported == pi_pc = "jumped" ~> host_pc = "done"

\* "drain any extra GET_PROG_INFOS" (put-code.c): a request that is repeated
\* before the answer arrives does no harm.
ExtraAsksDrained == faults = 0 /\ fits => host_pc # "dead"
=============================================================================
