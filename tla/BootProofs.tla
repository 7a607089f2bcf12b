----------------------------- MODULE BootProofs -----------------------------
(***************************************************************************)
(* Proofs about Boot: success is never reported for a program other than   *)
(* the one that was sent, for any numbers of faults, late requests and     *)
(* reboots, and any length of the texts.  Install, which composes the two  *)
(* boot programs with what surrounds them, implements Boot, and loses no   *)
(* character that the booted program prints.                               *)
(***************************************************************************)
EXTENDS Install, SequenceTheorems, TLAPS

\* Streams without the byte that opens BOOT_SUCCESS.
QuietBytes == Bytes \ {"AA"}
Quiet == Seq(QuietBytes)

\* Nothing reads as BOOT_SUCCESS before the Pi has verified the program: the
\* byte it opens with is in no other message, and damage does not produce it.
NoFalseSuccess ==
  /\ to_host \in Seq(Bytes) /\ to_pi \in Quiet /\ cksum \in Quiet /\ mem \in Quiet
  /\ pi_pc = "jumped" \/ to_host \in Quiet

IInv ==
  /\ NoFalseSuccess
  /\ pi_pc \in {"success", "jumped"} => mem = Program
  /\ host_pc = "done" => pi_pc = "jumped"

\* Four bytes are a stream, quiet if they are.
LEMMA FourBytes ==
  ASSUME NEW S, NEW a \in S, NEW b \in S, NEW c \in S, NEW d \in S
  PROVE  <<a, b, c, d>> \in Seq(S)
  OBVIOUS

\* A quiet stream is a stream.
LEMMA QuietIsStream == Quiet \subseteq Seq(Bytes)
  BY DEF Quiet, QuietBytes

\* What IInv says of the types.
LEMMA StreamsTyped ==
  IInv => to_host \in Seq(Bytes) /\ to_pi \in Seq(Bytes) /\ cksum \in Seq(Bytes) /\ mem \in Seq(Bytes)
  BY QuietIsStream DEF IInv, NoFalseSuccess

\* What is taken off either end of a stream, or left, keeps its kind.
LEMMA PartsKeepKind ==
  ASSUME NEW S, NEW s \in Seq(S), NEW n \in Nat
  PROVE  Rest(s, n) \in Seq(S) /\ (n <= Len(s) => Front(s, n) \in Seq(S))
  BY DEF Front, Rest

\* The words of the protocol but one are quiet.
LEMMA Words ==
  /\ GetProgInfo \in Quiet /\ PutProgInfo \in Quiet /\ GetCode \in Quiet
  /\ PutCode \in Quiet /\ BootError \in Quiet /\ PrintString \in Quiet
  /\ ArmBase \in Quiet /\ CodeSize \in Quiet /\ Cksum \in Quiet /\ TextSize \in Quiet
  /\ BootSuccess \in Seq(Bytes)
  BY FourBytes DEF Quiet, QuietBytes, Bytes, GetProgInfo, PutProgInfo, GetCode, PutCode,
       BootError, PrintString, ArmBase, CodeSize, Cksum, TextSize, BootSuccess

\* So are the texts and the program.
LEMMA Texts == Text \in Quiet /\ Program \in Quiet /\ Printed \in Quiet /\ Hello \in Quiet
  <1>1. Text \in Quiet
    BY BootConstants DEF Quiet, QuietBytes, Bytes, Text
  <1>2. <<"k1", "k2", "k3", "k4">> \in Quiet
    BY FourBytes DEF Quiet, QuietBytes, Bytes
  <1>3. Program \in Quiet
    BY <1>2, BootConstants DEF Quiet, Program
  <1>4. Printed \in Quiet
    BY <1>1, Words DEF Quiet, Printed
  <1> QED
    BY <1>1, <1>3, <1>4, Words DEF Quiet, Hello

\* The word of success itself is not quiet.
LEMMA SuccessIsNotQuiet == BootSuccess \notin Quiet
  <1>1. BootSuccess[1] = "AA" /\ 1 \in DOMAIN BootSuccess
    BY DEF BootSuccess
  <1> QED
    BY <1>1 DEF Quiet, QuietBytes

\* What the Pi sends before it jumps is quiet, and is appended.
LEMMA Sending ==
  ASSUME NEW bytes \in Quiet, IInv, pi_pc # "jumped", ToHost(bytes)
  PROVE  to_host' \in Quiet /\ to_host' \in Seq(Bytes)
  BY QuietIsStream DEF IInv, NoFalseSuccess, ToHost, Quiet

\* The host starts to read somewhere in the Pi's first, quiet message.
LEMMA InitIInv == Init => IInv
  <1> SUFFICES ASSUME Init PROVE IInv
    OBVIOUS
  <1>1. PICK k \in 1 .. Len(Hello) : to_host = SubSeq(Hello, k, Len(Hello))
    BY DEF Init
  <1>2. to_host \in Quiet
    BY <1>1, Texts DEF Quiet
  <1>3. <<>> \in Quiet
    BY DEF Quiet
  <1> QED
    BY <1>2, <1>3, Words, QuietIsStream DEF Init, IInv, NoFalseSuccess

\* The host takes bytes off its stream, and reads success only where it is.
LEMMA HostIInv == IInv /\ HostStep => IInv'
  <1> SUFFICES ASSUME IInv, HostStep PROVE IInv'
    OBVIOUS
  <1> USE DEF IInv, NoFalseSuccess, pi_vars, host_vars
  <1>1. \A n \in Nat : Rest(to_host, n) \in Seq(Bytes)
                      /\ (to_host \in Quiet => Rest(to_host, n) \in Quiet)
    BY PartsKeepKind DEF Quiet
  <1>2. Len(Printed) \in Nat
    BY Texts DEF Quiet
  <1>3. CASE SkipPrint
    BY <1>1, <1>2, <1>3 DEF SkipPrint
  <1>4. CASE Sync
    BY <1>1, <1>4 DEF Sync, GetOp
  <1>5. CASE SyncEat
    BY <1>1, <1>5 DEF SyncEat, Eat
  <1>6. CASE SendInfo
    <2>1. PutProgInfo \o ArmBase \o CodeSize \o Cksum \in Quiet
      BY Words DEF Quiet
    <2>2. to_pi' \in Quiet
      BY <1>6, <2>1 DEF SendInfo, ToPi, Quiet
    <2> QED
      BY <1>6, <2>2 DEF SendInfo
  <1>7. CASE Drain
    BY <1>1, <1>7 DEF Drain, GetOp
  <1>8. CASE DrainEat
    BY <1>1, <1>8 DEF DrainEat, Eat
  <1>9. CASE CheckCksum
    BY <1>1, <1>9 DEF CheckCksum
  <1>10. CASE SendCode
    <2>1. PutCode \o Program \in Quiet
      BY Words, Texts DEF Quiet
    <2>2. to_pi' \in Quiet
      BY <1>10, <2>1 DEF SendCode, ToPi, Quiet
    <2> QED
      BY <1>10, <2>2 DEF SendCode
  <1>11. CASE Await
    <2>1. 4 <= Len(to_host)
      BY <1>11 DEF Await, GetOp, HostBlocked, HostNeeds
    <2>2. to_host \in Quiet => Front(to_host, 4) \in Quiet
      BY <2>1, PartsKeepKind DEF Quiet
    <2>3. Front(to_host, 4) = BootSuccess => pi_pc = "jumped"
      BY <2>2, SuccessIsNotQuiet
    <2> QED
      BY <1>1, <1>11, <2>3 DEF Await, GetOp
  <1>12. CASE AwaitEat
    BY <1>1, <1>12 DEF AwaitEat, Eat
  <1> QED
    BY <1>3, <1>4, <1>5, <1>6, <1>7, <1>8, <1>9, <1>10, <1>11, <1>12 DEF HostStep

\* The Pi sends quiet words only, until it has verified what it stored.
LEMMA PiIInv == IInv /\ (PiStep \/ Ask(TRUE)) => IInv'
  <1> SUFFICES ASSUME IInv, PiStep \/ Ask(TRUE) PROVE IInv'
    OBVIOUS
  <1> USE DEF IInv, NoFalseSuccess, pi_vars, host_vars
  <1>1. \A n \in Nat : Rest(to_pi, n) \in Quiet
    BY PartsKeepKind DEF Quiet
  <1>2. ASSUME NEW b, Ask(b) PROVE IInv'
    <2>1. to_host' \in Quiet /\ to_host' \in Seq(Bytes)
      BY <1>2, Sending, Words DEF Ask
    <2> QED
      BY <1>2, <2>1 DEF Ask
  <1>3. CASE HasData
    BY <1>3 DEF HasData
  <1>4. ASSUME NEW from, NEW word, NEW to, GetPiOp(from, word, to),
               from # "jumped", to \notin {"success", "jumped"}
        PROVE  IInv'
    <2>1. CASE to_host' = to_host
      BY <1>1, <1>4, <2>1 DEF GetPiOp
    <2>2. CASE ToHost(Text)
      <3>1. to_host' \in Quiet /\ to_host' \in Seq(Bytes)
        BY <1>4, <2>2, Sending, Texts DEF GetPiOp
      <3> QED
        BY <1>1, <1>4, <3>1 DEF GetPiOp
    <2> QED
      BY <1>4, <2>1, <2>2 DEF GetPiOp
  <1>5. CASE InfoOp
    BY <1>4, <1>5 DEF InfoOp
  <1>6. CASE ReadInfo
    <2>1. 12 <= Len(to_pi)
      BY <1>6 DEF ReadInfo, PiBlocked, PiNeeds
    <2>2. SubSeq(to_pi, 9, 12) \in Quiet
      BY <2>1 DEF Quiet
    <2>3. <<>> \in Quiet
      BY DEF Quiet
    <2> QED
      BY <1>1, <1>6, <2>2, <2>3 DEF ReadInfo
  <1>7. CASE AskForCode
    <2>1. Printed \o BootError \in Quiet /\ GetCode \o cksum \in Quiet
      BY Words, Texts DEF Quiet
    <2>2. to_host' \in Quiet /\ to_host' \in Seq(Bytes)
      BY <1>7, <2>1, Sending DEF AskForCode
    <2> QED
      BY <1>7, <2>2 DEF AskForCode
  <1>8. CASE CodeOp
    BY <1>4, <1>8 DEF CodeOp
  <1>9. CASE StoreByte
    <2>1. Len(to_pi) > 0
      BY <1>9 DEF StoreByte, PiBlocked, PiNeeds, Quiet
    <2>2. Append(mem, Head(to_pi)) \in Quiet /\ Tail(to_pi) \in Quiet
      BY <2>1 DEF Quiet
    <2> QED
      BY <1>9, <2>2 DEF StoreByte
  <1>10. CASE Verify
    <2>1. CASE CrcMatches
      BY <1>10, <2>1 DEF Verify, CrcMatches
    <2>2. CASE ~CrcMatches
      <3>1. Printed \o BootError \in Quiet
        BY Words, Texts DEF Quiet
      <3>2. to_host' \in Quiet /\ to_host' \in Seq(Bytes)
        BY <1>10, <2>2, <3>1, Sending DEF Verify
      <3> QED
        BY <1>10, <2>2, <3>2 DEF Verify
    <2> QED
      BY <2>1, <2>2
  <1>11. CASE Succeed
    <2>1. Printed \o BootSuccess \in Seq(Bytes)
      BY Words, Texts, QuietIsStream
    <2>2. to_host' \in Seq(Bytes)
      BY <1>11, <2>1 DEF Succeed, ToHost
    <2> QED
      BY <1>11, <2>2 DEF Succeed
  <1>12. CASE Reboot
    <2>1. PICK n \in 0 .. Len(to_pi) : to_pi' = Rest(to_pi, n)
      BY <1>12 DEF Reboot
    <2>2. to_pi' \in Quiet
      BY <1>1, <2>1
    <2>3. to_host' \in Quiet /\ to_host' \in Seq(Bytes)
      BY <1>12, Sending, Texts, QuietIsStream DEF Reboot
    <2> QED
      BY <1>12, <2>2, <2>3 DEF Reboot
  <1> QED
    BY <1>2, <1>3, <1>5, <1>6, <1>7, <1>8, <1>9, <1>10, <1>11, <1>12 DEF PiStep

\* The line damages bytes, but damage is no success either.
LEMMA LineIInv == IInv /\ (Fault \/ HostTimeout) => IInv'
  <1> SUFFICES ASSUME IInv, Fault \/ HostTimeout PROVE IInv'
    OBVIOUS
  <1> USE DEF IInv, NoFalseSuccess, pi_vars, host_vars
  <1>1. CASE Fault
    <2>1. PICK i \in DOMAIN to_pi : Lose(i) \/ Corrupt(i)
      BY <1>1 DEF Fault
    <2>2. i \in 1 .. Len(to_pi)
      BY <2>1 DEF Quiet
    <2>3. CASE Lose(i)
      <3>0. i \in Nat /\ i - 1 \in Nat /\ i - 1 <= Len(to_pi)
        BY <2>2 DEF Quiet
      <3>1. Front(to_pi, i - 1) \in Quiet /\ Rest(to_pi, i) \in Quiet
        BY <3>0, PartsKeepKind DEF Quiet
      <3>2. to_pi' \in Quiet
        BY <2>3, <3>1 DEF Lose, Quiet
      <3> QED
        BY <1>1, <3>2 DEF Fault
    <2>4. CASE Corrupt(i)
      <3>1. "bad" \in QuietBytes
        BY DEF QuietBytes, Bytes
      <3>2. to_pi' \in Quiet
        BY <2>4, <2>2, <3>1 DEF Corrupt, Quiet
      <3> QED
        BY <1>1, <3>2 DEF Fault
    <2> QED
      BY <2>1, <2>3, <2>4
  <1>2. CASE HostTimeout
    BY <1>2 DEF HostTimeout
  <1> QED
    BY <1>1, <1>2

\* The inductive invariant holds in every state: BOOT_SUCCESS is on its way only
\* after the program was verified.
THEOREM Invariance == Spec => []IInv
  <1>1. IInv /\ [Next]_vars => IInv'
    <2> SUFFICES ASSUME IInv, [Next]_vars PROVE IInv'
      OBVIOUS
    <2>1. CASE UNCHANGED vars
      BY <2>1 DEF vars, pi_vars, host_vars, IInv, NoFalseSuccess
    <2> QED
      BY <2>1, HostIInv, PiIInv, LineIInv DEF Next
  <1> QED
    BY InitIInv, <1>1, PTL DEF Spec

-----------------------------------------------------------------------------
\* Which header the Pi reads.  The byte that PUT_PROG_INFO opens with is in nothing
\* else that the host sends, and the host sends it once.
NoHeader(s, n) == \A i \in DOMAIN s : i > n => s[i] # "44"
Addressed(s, n) == n + 4 <= Len(s) /\ \A i \in 1 .. 4 : s[n + i] = ArmBase[i]

PutsHeader == {"sync", "sync_eat", "send_info"}
Accepted == {"code_op", "code", "verify", "success", "jumped"}

NotSent == host_pc \in PutsHeader /\ to_pi = <<>> /\ pi_pc = "listen" /\ addr = "armbase"

Sent ==
  /\ host_pc \notin PutsHeader
  /\ pi_pc \in {"listen", "info_op"} /\ addr = "armbase"
  /\ Addressed(to_pi, 4) /\ NoHeader(to_pi, 4)

Reading ==
  /\ host_pc \notin PutsHeader
  /\ pi_pc = "info" /\ Addressed(to_pi, 0) /\ NoHeader(to_pi, 0)

\* No header is found a second time, also not after a reboot.
Spent ==
  /\ host_pc \notin PutsHeader
  /\ pi_pc # "info" /\ NoHeader(to_pi, 0)
  /\ addr \in {"armbase", "bootloader"}
  /\ pi_pc \in Accepted => addr = "armbase"

AddrInv == faults \in Nat /\ (faults = 0 => NotSent \/ Sent \/ Reading \/ Spent)

\* Four words in a row.
LEMMA FourWords ==
  ASSUME NEW S, NEW a \in Seq(S), NEW b \in Seq(S), NEW c \in Seq(S), NEW d \in Seq(S)
  PROVE  a \o b \o c \o d \in Seq(S) /\ Len(a \o b \o c \o d) = Len(a) + Len(b) + Len(c) + Len(d)
  <1>1. a \o b \in Seq(S) /\ Len(a \o b) = Len(a) + Len(b)
    OBVIOUS
  <1>2. a \o b \o c \in Seq(S) /\ Len(a \o b \o c) = Len(a \o b) + Len(c)
    BY <1>1
  <1>3. /\ a \o b \o c \o d \in Seq(S)
        /\ Len(a \o b \o c \o d) = Len(a \o b \o c) + Len(d)
    BY <1>2
  <1> QED
    BY <1>1, <1>2, <1>3

\* The header itself.
LEMMA HeaderBytes ==
  /\ PutProgInfo \o ArmBase \o CodeSize \o Cksum \in Seq(Bytes)
  /\ Addressed(PutProgInfo \o ArmBase \o CodeSize \o Cksum, 4)
  /\ NoHeader(PutProgInfo \o ArmBase \o CodeSize \o Cksum, 4)
  <1> DEFINE h == PutProgInfo \o ArmBase \o CodeSize \o Cksum
  <1>1. h \in Seq(Bytes) /\ Len(h) = 16
    <2>1. PutProgInfo \in Quiet /\ ArmBase \in Quiet /\ CodeSize \in Quiet /\ Cksum \in Quiet
      BY Words
    <2>2. Len(PutProgInfo) = 4 /\ Len(ArmBase) = 4 /\ Len(CodeSize) = 4 /\ Len(Cksum) = 4
      BY DEF PutProgInfo, ArmBase, CodeSize, Cksum
    <2>3. h \in Quiet
      BY <2>1 DEF Quiet
    <2>4. Len(h) = Len(PutProgInfo) + Len(ArmBase) + Len(CodeSize) + Len(Cksum)
      BY <2>1, FourWords DEF Quiet
    <2> HIDE DEF h
    <2>5. Len(h) = 4 + 4 + 4 + 4
      BY <2>2, <2>4, Zenon
    <2> QED
      BY <2>3, <2>5, QuietIsStream
  <1>2. /\ \A i \in 1 .. 4 : h[4 + i] = ArmBase[i]
        /\ \A i \in 1 .. 4 : h[8 + i] = CodeSize[i]
        /\ \A i \in 1 .. 4 : h[12 + i] = Cksum[i]
    BY DEF PutProgInfo, ArmBase, CodeSize, Cksum
  <1>3. \A i \in 1 .. 4 : ArmBase[i] # "44" /\ CodeSize[i] # "44" /\ Cksum[i] # "44"
    BY DEF ArmBase, CodeSize, Cksum
  <1> HIDE DEF h
  <1>4. ASSUME NEW i \in DOMAIN h, i > 4 PROVE h[i] # "44"
    <2>1. i \in 5 .. 16
      BY <1>1, <1>4
    <2>2. CASE i \in 5 .. 8
      <3>1. i - 4 \in 1 .. 4 /\ 4 + (i - 4) = i
        BY <2>2
      <3> QED
        BY <1>2, <1>3, <3>1
    <2>3. CASE i \in 9 .. 12
      <3>1. i - 8 \in 1 .. 4 /\ 8 + (i - 8) = i
        BY <2>3
      <3> QED
        BY <1>2, <1>3, <3>1
    <2>4. CASE i \in 13 .. 16
      <3>1. i - 12 \in 1 .. 4 /\ 12 + (i - 12) = i
        BY <2>4
      <3> QED
        BY <1>2, <1>3, <3>1
    <2> QED
      BY <2>1, <2>2, <2>3, <2>4
  <1>5. Addressed(h, 4) /\ NoHeader(h, 4)
    BY <1>1, <1>2, <1>4 DEF Addressed, NoHeader
  <1> QED
    BY <1>1, <1>5 DEF h

\* Neither does the code contain it.
LEMMA CodeBytes == PutCode \o Program \in Seq(Bytes) /\ NoHeader(PutCode \o Program, 0)
  <1>1. PutCode \in Seq(Bytes \ {"44"})
    BY FourBytes DEF PutCode, Bytes
  <1>2. <<"k1", "k2", "k3", "k4">> \in Seq(Bytes \ {"44"})
    BY FourBytes DEF Bytes
  <1>3. Program \in Seq(Bytes \ {"44"})
    BY <1>2, BootConstants DEF Program
  <1>4. PutCode \o Program \in Seq(Bytes \ {"44"})
    BY <1>1, <1>3
  <1> QED
    BY <1>4 DEF NoHeader

\* What is taken off the front, and what is appended.
LEMMA HeaderTaken ==
  ASSUME NEW s \in Seq(Bytes), NEW n \in Nat, NEW m \in Nat, n <= m, NoHeader(s, m)
  PROVE  NoHeader(Rest(s, n), m - n)
  BY DEF NoHeader, Rest

LEMMA HeaderAppended ==
  ASSUME NEW s \in Seq(Bytes), NEW t \in Seq(Bytes), NEW n \in Nat,
         NoHeader(s, n), NoHeader(t, 0)
  PROVE  /\ NoHeader(s \o t, n)
         /\ Addressed(s, n) => Addressed(s \o t, n)
  <1>1. NoHeader(s \o t, n)
    BY DEF NoHeader
  <1>2. Addressed(s, n) => Addressed(s \o t, n)
    BY DEF Addressed
  <1> QED
    BY <1>1, <1>2

LEMMA HostAddrInv == IInv /\ AddrInv /\ (HostStep \/ HostTimeout) => AddrInv'
  <1> SUFFICES ASSUME IInv, AddrInv, HostStep \/ HostTimeout
               PROVE  faults' = faults /\ (faults = 0 => (NotSent \/ Sent \/ Reading \/ Spent)')
    BY DEF AddrInv
  <1>0. UNCHANGED <<pi_vars, faults>> /\ to_pi \in Seq(Bytes)
    BY StreamsTyped DEF HostStep, SkipPrint, Sync, SyncEat, SendInfo, Drain, DrainEat, CheckCksum,
           SendCode, Await, AwaitEat, GetOp, Eat, HostTimeout
  <1> SUFFICES ASSUME faults = 0 PROVE (NotSent \/ Sent \/ Reading \/ Spent)'
    BY <1>0
  <1>1. NotSent \/ Sent \/ Reading \/ Spent
    BY DEF AddrInv
  <1>2. CASE UNCHANGED to_pi /\ (host_pc' \in PutsHeader <=> host_pc \in PutsHeader)
    BY <1>0, <1>1, <1>2 DEF NotSent, Sent, Reading, Spent, pi_vars
  <1>3. CASE SendInfo
    <2>1. NotSent /\ host_pc' = "drain"
      BY <1>1, <1>3 DEF SendInfo, NotSent, Sent, Reading, Spent, PutsHeader
    <2>2. to_pi' = PutProgInfo \o ArmBase \o CodeSize \o Cksum
      BY <1>3, <2>1, HeaderBytes DEF SendInfo, ToPi, NotSent
    <2> QED
      BY <1>0, <2>1, <2>2, HeaderBytes DEF NotSent, Sent, PutsHeader, pi_vars
  <1>4. CASE SendCode
    <2>1. host_pc' \notin PutsHeader /\ ~NotSent /\ to_pi' = to_pi \o (PutCode \o Program)
      BY <1>4 DEF SendCode, ToPi, NotSent, PutsHeader
    <2>2. /\ Sent => Addressed(to_pi', 4) /\ NoHeader(to_pi', 4)
          /\ Reading => Addressed(to_pi', 0) /\ NoHeader(to_pi', 0)
          /\ Spent => NoHeader(to_pi', 0)
      BY <1>0, <2>1, HeaderAppended, CodeBytes DEF Sent, Reading, Spent
    <2> QED
      BY <1>0, <1>1, <2>1, <2>2 DEF Sent, Reading, Spent, pi_vars
  <1>5. CASE HostTimeout
    <2>1. host_pc' = "dead" /\ UNCHANGED to_pi
      BY <1>5 DEF HostTimeout
    <2>2. NotSent => NoHeader(to_pi, 0)
      BY DEF NotSent, NoHeader
    <2> QED
      BY <1>0, <1>1, <2>1, <2>2
         DEF NotSent, Sent, Reading, Spent, PutsHeader, Accepted, pi_vars
  <1>6. HostStep => SendInfo \/ SendCode \/
                    (UNCHANGED to_pi /\ (host_pc' \in PutsHeader <=> host_pc \in PutsHeader))
    BY DEF HostStep, SkipPrint, Sync, SyncEat, Drain, DrainEat, CheckCksum,
           Await, AwaitEat, GetOp, Eat, PutsHeader, host_vars
  <1> QED
    BY <1>2, <1>3, <1>4, <1>5, <1>6

LEMMA PiAddrInv == IInv /\ AddrInv /\ (PiStep \/ Ask(TRUE)) => AddrInv'
  <1> SUFFICES ASSUME IInv, AddrInv, PiStep \/ Ask(TRUE)
               PROVE  faults' = faults /\ (faults = 0 => (NotSent \/ Sent \/ Reading \/ Spent)')
    BY DEF AddrInv
  <1>0. UNCHANGED <<host_pc, faults>> /\ to_pi \in Seq(Bytes)
    BY StreamsTyped DEF PiStep, Ask, HasData, InfoOp, ReadInfo, AskForCode, CodeOp, StoreByte,
         Verify, Succeed, Reboot, GetPiOp, host_vars, pi_vars
  <1> SUFFICES ASSUME faults = 0 PROVE (NotSent \/ Sent \/ Reading \/ Spent)'
    BY <1>0
  <1>1. NotSent \/ Sent \/ Reading \/ Spent
    BY DEF AddrInv
  <1> USE DEF PutsHeader, Accepted
  <1>2. ASSUME NEW b, Ask(b) PROVE NotSent' \/ Sent' \/ Reading' \/ Spent'
    BY <1>0, <1>1, <1>2 DEF Ask, NotSent, Sent, Reading, Spent, pi_vars
  <1>3. CASE HasData
    BY <1>0, <1>1, <1>3 DEF HasData, NotSent, Sent, Reading, Spent
  <1>4. CASE InfoOp
    <2>1. pi_pc = "info_op" /\ 4 <= Len(to_pi) /\ to_pi' = Rest(to_pi, 4) /\ addr' = addr
      BY <1>4 DEF InfoOp, GetPiOp, PiBlocked, PiNeeds
    <2>2. CASE Sent
      <3>1. NoHeader(to_pi', 0)
        <4>1. NoHeader(Rest(to_pi, 4), 4 - 4)
          BY <1>0, <2>2, HeaderTaken DEF Sent
        <4> QED
          BY <2>1, <4>1
      <3>2. Addressed(to_pi', 0)
        BY <1>0, <2>1, <2>2 DEF Sent, Addressed, Rest
      <3>3. pi_pc' \in {"info", "reboot"}
        BY <1>4 DEF InfoOp, GetPiOp
      <3> QED
        BY <1>0, <2>1, <2>2, <3>1, <3>2, <3>3 DEF Sent, Reading, Spent
    <2>3. CASE Spent
      <3>1. to_pi[1] # "44" /\ Front(to_pi, 4)[1] = to_pi[1] /\ PutProgInfo[1] = "44"
        BY <1>0, <2>1, <2>3 DEF Spent, NoHeader, Front, PutProgInfo
      <3>2. pi_pc' = "reboot"
        BY <1>4, <3>1 DEF InfoOp, GetPiOp
      <3>3. NoHeader(to_pi', 0)
        BY <1>0, <2>1, <2>3 DEF Spent, NoHeader, Rest
      <3> QED
        BY <1>0, <2>1, <2>3, <3>2, <3>3 DEF Spent
    <2> QED
      BY <1>1, <2>1, <2>2, <2>3 DEF NotSent, Reading
  <1>5. CASE ReadInfo
    <2>1. Reading /\ 12 <= Len(to_pi) /\ to_pi' = Rest(to_pi, 12) /\ pi_pc' = "get_code"
      BY <1>1, <1>5 DEF ReadInfo, PiBlocked, PiNeeds, NotSent, Sent, Reading, Spent
    <2>2. Front(to_pi, 4) = ArmBase
      <3>1. Front(to_pi, 4) \in Seq(Bytes) /\ Len(Front(to_pi, 4)) = 4
        BY <1>0, <2>1 DEF Front
      <3>2. ArmBase \in Seq(Bytes) /\ Len(ArmBase) = 4
        BY Words, QuietIsStream DEF ArmBase
      <3>3. \A i \in 1 .. 4 : Front(to_pi, 4)[i] = ArmBase[i]
        BY <1>0, <2>1 DEF Reading, Addressed, Front
      <3> QED
        BY <3>1, <3>2, <3>3, SeqEqual
    <2>3. addr' \in {"armbase", "bootloader"}
      BY <1>5, <2>2 DEF ReadInfo
    <2>4. NoHeader(to_pi', 0)
      BY <1>0, <2>1 DEF Reading, NoHeader, Rest
    <2> QED
      BY <1>0, <2>1, <2>3, <2>4 DEF Reading, Spent
  <1>6. ASSUME Spent, addr' = addr, pi_pc' # "info", NoHeader(to_pi', 0),
               pi_pc' \in Accepted => pi_pc \in Accepted \/ addr # "bootloader"
        PROVE  Spent'
    BY <1>0, <1>6 DEF Spent
  <1>7. pi_pc \notin {"listen", "info_op", "info"} => Spent
    BY <1>1 DEF NotSent, Sent, Reading
  <1>8. ASSUME NEW n \in Nat, Spent PROVE NoHeader(Rest(to_pi, n), 0)
    BY <1>0, <1>8 DEF Spent, NoHeader, Rest
  <1>9. CASE AskForCode
    BY <1>6, <1>7, <1>9 DEF AskForCode, Spent
  <1>10. CASE CodeOp
    <2>1. /\ Spent /\ addr' = addr /\ pi_pc' # "info" /\ pi_pc \in Accepted
          /\ to_pi' = Rest(to_pi, 4)
      BY <1>7, <1>10 DEF CodeOp, GetPiOp
    <2> QED
      BY <1>6, <1>8, <2>1
  <1>11. CASE StoreByte
    <2>1. /\ Spent /\ addr' = addr /\ pi_pc' # "info" /\ pi_pc \in Accepted
          /\ to_pi' = Tail(to_pi) /\ 1 <= Len(to_pi)
      BY <1>7, <1>11 DEF StoreByte, PiBlocked, PiNeeds
    <2>2. NoHeader(to_pi', 0)
      BY <1>0, <2>1 DEF Spent, NoHeader
    <2> QED
      BY <1>6, <2>1, <2>2
  <1>12. CASE Verify
    BY <1>6, <1>7, <1>12 DEF Verify, Spent
  <1>13. CASE Succeed
    BY <1>6, <1>7, <1>13 DEF Succeed, Spent
  <1>14. CASE Reboot
    <2>1. PICK n \in 0 .. Len(to_pi) : to_pi' = Rest(to_pi, n)
      BY <1>14 DEF Reboot
    <2>2. Spent /\ addr' = addr /\ pi_pc' \in {"listen", "off"}
      BY <1>7, <1>14 DEF Reboot
    <2> QED
      BY <1>0, <1>6, <1>8, <2>1, <2>2
  <1> QED
    BY <1>2, <1>3, <1>4, <1>5, <1>9, <1>10, <1>11, <1>12, <1>13, <1>14 DEF PiStep

\* As long as the line is without faults, the header that the Pi reads is the one that was
\* sent, from its start to its end, and it reads no other.
THEOREM AddressIsKept == Spec => []AddrInv
  <1>1. Init => AddrInv
    BY DEF Init, AddrInv, NotSent, PutsHeader
  <1>2. IInv /\ AddrInv /\ [Next]_vars => AddrInv'
    <2> SUFFICES ASSUME IInv, AddrInv, [Next]_vars PROVE AddrInv'
      OBVIOUS
    <2>1. CASE UNCHANGED vars
      BY <2>1 DEF vars, pi_vars, host_vars, AddrInv, NotSent, Sent, Reading, Spent
    <2>2. CASE Fault
      BY <2>2 DEF Fault, AddrInv
    <2> QED
      BY <2>1, <2>2, HostAddrInv, PiAddrInv DEF Next
  <1> QED
    BY Invariance, <1>1, <1>2, PTL DEF Spec

\* When the host reports success, the Pi has jumped, and what it has stored is the program
\* that was sent, however many bytes the line lost or damaged; without a fault it has stored
\* it, and jumped to it, where the host told it to, for any numbers of late requests and
\* reboots.
THEOREM SuccessIsTrue == Spec => []DoneMeansRunning
  <1>1. IInv /\ AddrInv => DoneMeansRunning
    BY DEF IInv, AddrInv, DoneMeansRunning, NotSent, Sent, Reading, Spent, Accepted
  <1> QED
    BY <1>1, Invariance, AddressIsKept, PTL

-----------------------------------------------------------------------------
\* A program that is being stored is not complete, and storing begins at nothing.
StoredSoFar ==
  /\ pi_pc \in {"get_code", "code_op"} => mem = <<>>
  /\ pi_pc = "code" => Len(mem) < nbytes

\* The streams are typed by IInv; what is left of the types follows with StoredSoFar.
TInv == TypeOK /\ StoredSoFar

LEMMA InitTInv == Init => TInv
  <1> SUFFICES ASSUME Init PROVE TInv
    OBVIOUS
  <1>1. IInv
    BY InitIInv
  <1>2. Len(Cksum) = 4 /\ Len(<<>>) = 0
    BY DEF Cksum
  <1> QED
    BY <1>1, <1>2, StreamsTyped, BootConstants
       DEF Init, TInv, TypeOK, StoredSoFar, PiPC, HostPC

LEMMA HostTInv == IInv' /\ TInv /\ (HostStep \/ HostTimeout) => TInv'
  <1> SUFFICES ASSUME IInv', TInv, HostStep \/ HostTimeout PROVE TInv'
    OBVIOUS
  <1>1. to_host' \in Seq(Bytes) /\ to_pi' \in Seq(Bytes)
    BY StreamsTyped, QuietIsStream DEF IInv, NoFalseSuccess
  <1>2. UNCHANGED <<pi_vars, fits, faults, late>>
    BY DEF HostStep, SkipPrint, Sync, SyncEat, SendInfo, Drain, DrainEat, CheckCksum,
           SendCode, Await, AwaitEat, GetOp, Eat, HostTimeout
  <1>3. host_pc' \in HostPC
    BY DEF HostStep, SkipPrint, Sync, SyncEat, SendInfo, Drain, DrainEat, CheckCksum,
           SendCode, Await, AwaitEat, GetOp, Eat, HostTimeout, TInv, TypeOK, HostPC, host_vars
  <1> QED
    BY <1>1, <1>2, <1>3 DEF TInv, TypeOK, StoredSoFar, pi_vars

LEMMA PiTInv == IInv /\ IInv' /\ TInv /\ (PiStep \/ Ask(TRUE)) => TInv'
  <1> SUFFICES ASSUME IInv, IInv', TInv, PiStep \/ Ask(TRUE) PROVE TInv'
    OBVIOUS
  <1>1. /\ to_host' \in Seq(Bytes) /\ to_pi' \in Seq(Bytes)
        /\ cksum' \in Seq(Bytes) /\ mem' \in Seq(Bytes)
        /\ to_pi \in Seq(Bytes) /\ mem \in Seq(Bytes)
    BY StreamsTyped, QuietIsStream DEF IInv, NoFalseSuccess
  <1> USE <1>1, BootConstants DEF TInv, TypeOK, StoredSoFar, pi_vars, host_vars
  <1>2. ASSUME NEW b \in BOOLEAN, Ask(b) PROVE TInv'
    <2>1. late' \in 0 .. MaxLate
      BY <1>2 DEF Ask
    <2>2. UNCHANGED <<pi_vars, host_vars, fits, faults>>
      BY <1>2 DEF Ask
    <2> QED
      BY <2>1, <2>2
  <1>3. CASE HasData
    BY <1>3 DEF HasData, PiPC
  <1>4. CASE InfoOp
    BY <1>4 DEF InfoOp, GetPiOp, PiPC
  <1>5. CASE ReadInfo
    <2>1. 12 <= Len(to_pi)
      BY <1>5 DEF ReadInfo, PiBlocked, PiNeeds
    <2>2. Len(cksum') = 4
      BY <1>5, <2>1 DEF ReadInfo
    <2>3. nbytes' \in 0 .. (CodeLen + 1) /\ addr' \in {"armbase", "elsewhere", "bootloader"}
      BY <1>5 DEF ReadInfo
    <2>4. mem' = <<>> /\ Len(mem') <= nbytes'
      BY <1>5, <2>3 DEF ReadInfo
    <2> QED
      BY <1>5, <2>2, <2>3, <2>4 DEF ReadInfo, PiPC
  <1>6. CASE AskForCode
    BY <1>6 DEF AskForCode, PiPC
  <1>7. CASE CodeOp
    <2>1. pi_pc' = "code" => nbytes # 0 /\ mem = <<>>
      BY <1>7 DEF CodeOp, GetPiOp
    <2>2. pi_pc' \in {"verify", "code", "reboot"}
      BY <1>7 DEF CodeOp, GetPiOp
    <2>3. UNCHANGED <<addr, nbytes, cksum, mem, reboots, host_pc, fits, faults, late>>
      BY <1>7 DEF CodeOp, GetPiOp
    <2> QED
      BY <2>1, <2>2, <2>3 DEF PiPC
  <1>8. CASE StoreByte
    <2>1. Len(mem') = Len(mem) + 1 /\ Len(mem) < nbytes
      BY <1>8 DEF StoreByte
    <2>2. pi_pc' = IF Len(mem') = nbytes THEN "verify" ELSE "code"
      BY <1>8, <2>1 DEF StoreByte
    <2> QED
      BY <1>8, <2>1, <2>2 DEF StoreByte, PiPC
  <1>9. CASE Verify
    BY <1>9 DEF Verify, PiPC
  <1>10. CASE Succeed
    BY <1>10 DEF Succeed, PiPC
  <1>11. CASE Reboot
    BY <1>11 DEF Reboot, PiPC
  <1> QED
    BY <1>2, <1>3, <1>4, <1>5, <1>6, <1>7, <1>8, <1>9, <1>10, <1>11 DEF PiStep

LEMMA FaultTInv == IInv' /\ TInv /\ Fault => TInv'
  BY StreamsTyped, QuietIsStream, BootConstants
     DEF Fault, IInv, NoFalseSuccess, TInv, TypeOK, StoredSoFar, pi_vars, host_vars

\* The variables keep their types: no counter of the bounds passes its limit, and the Pi
\* never stores more bytes than it was told the program has.
THEOREM TypeCorrect == Spec => []TypeOK
  <1>1. IInv /\ IInv' /\ TInv /\ [Next]_vars => TInv'
    <2> SUFFICES ASSUME IInv, IInv', TInv, [Next]_vars PROVE TInv'
      OBVIOUS
    <2>1. CASE UNCHANGED vars
      BY <2>1 DEF vars, pi_vars, host_vars, TInv, TypeOK, StoredSoFar
    <2> QED
      BY <2>1, HostTInv, PiTInv, FaultTInv DEF Next
  <1>2. TInv => TypeOK
    BY DEF TInv
  <1> QED
    BY InitTInv, Invariance, <1>1, <1>2, PTL DEF Spec

-----------------------------------------------------------------------------
\* Install implements Boot, so that what is proved of the two boot programs holds
\* while pi3-install runs one of them and the booted program runs after the other.

\* What pi3-install does outside simple_boot leaves the boot alone.
LEMMA InstallerLeavesBoot == InstallStep \/ PlugOrUnplug => UNCHANGED vars
  BY DEF InstallStep, PlugOrUnplug, ParseOptions, ScanDev, StatNext, Selected, OpenTty,
     SetTty, ReadFile, StartEcho, ReadStdin, ReadPi, NothingToRead, TtyGone

\* So do the booted program and its UART.
LEMMA ProgramLeavesBoot == ProgramStep \/ UartStep => UNCHANGED vars
  BY DEF ProgramStep, EnterProgram, DisableUart, EnableUart, StartPrinting, PutChar,
     RebootProgram, UartStep, LoadShift, Transmit

\* Every step of the whole is a step of the boot or leaves it alone.
LEMMA StepsAreBootSteps == [InstallNext]_all_vars => [Next]_vars
  <1> SUFFICES ASSUME [InstallNext]_all_vars PROVE [Next]_vars
    OBVIOUS
  <1>1. CASE InstallStep \/ PlugOrUnplug
    BY <1>1, InstallerLeavesBoot
  <1>2. CASE HostInBoot \/ PiInBoot \/ LineInBoot
    BY <1>2 DEF HostInBoot, PiInBoot, LineInBoot, Next
  <1>3. CASE ProgramStep \/ UartStep
    BY <1>3, ProgramLeavesBoot
  <1>4. CASE UNCHANGED all_vars
    BY <1>4 DEF all_vars
  <1> QED
    BY <1>1, <1>2, <1>3, <1>4 DEF InstallNext

\* Seen from get_code and simple_boot, a run of pi3-install and of the program it
\* boots is a run of Boot (pi3-install.c, cstart.c).
THEOREM InstallImplementsBoot == InstallSpec => ImplementsBoot
  <1>1. InstallInit => Init
    BY DEF InstallInit
  <1> QED
    BY <1>1, StepsAreBootSteps, PTL DEF InstallSpec, ImplementsBoot, Spec

\* pi3-install goes on to echo a program's output only when the Pi has jumped and holds
\* the program that was sent, for any damage to the line and any number of reboots; on a
\* line without faults it has jumped to that program's address.
THEOREM InstallSuccessIsTrue == InstallSpec => []DoneMeansRunning
  BY InstallImplementsBoot, SuccessIsTrue, PTL DEF ImplementsBoot

-----------------------------------------------------------------------------
\* The booted program's output: what is where, from the program's text to the host's screen.

RunPC == {"bootloader", "init", "busy", "put", "off"}
Contents == Seq(Chars)

PrintTypes ==
  /\ run_pc \in RunPC
  /\ text \in Contents /\ out \in Contents /\ tx \in Contents /\ shift \in Contents /\ console \in Contents
  /\ echoed \in Contents

\* Nothing is anywhere before the program prints, and nothing is left behind when it has rebooted.
PrintInv ==
  /\ PrintTypes
  /\ run_pc \in {"bootloader", "init", "busy"} =>
       out = <<>> /\ tx = <<>> /\ shift = <<>> /\ console = <<>> /\ echoed = <<>>
  /\ NoCharLost

\* remove_nonprint goes character by character.
LEMMA NonprintTyped ==
  ASSUME NEW s \in Contents
  PROVE  remove_nonprint(s) \in Contents /\ Len(remove_nonprint(s)) = Len(s)
  <1>1. "SP" \in Chars
    BY DEF Chars
  <1>2. s \in [1 .. Len(s) -> Chars] /\ Len(s) \in Nat
    BY DEF Contents
  <1>3. remove_nonprint(s) \in [1 .. Len(s) -> Chars]
    BY <1>1, <1>2 DEF remove_nonprint
  <1> QED
    BY <1>2, <1>3 DEF Contents

LEMMA NonprintConcat ==
  ASSUME NEW s \in Contents, NEW t \in Contents
  PROVE  remove_nonprint(s \o t) = remove_nonprint(s) \o remove_nonprint(t)
  <1> DEFINE l == remove_nonprint(s \o t)
             r == remove_nonprint(s) \o remove_nonprint(t)
  <1>1. s \o t \in Contents /\ Len(s \o t) = Len(s) + Len(t)
    BY DEF Contents
  <1>2. l \in Seq(Chars) /\ Len(l) = Len(s) + Len(t)
    BY <1>1, NonprintTyped DEF Contents
  <1>3. r \in Seq(Chars) /\ Len(r) = Len(s) + Len(t)
    BY NonprintTyped, ConcatProperties DEF Contents
  <1>4. ASSUME NEW k \in 1 .. Len(l) PROVE l[k] = r[k]
    <2>1. l[k] = IF (s \o t)[k] \in Unprintable THEN "SP" ELSE (s \o t)[k]
      BY <1>1, <1>2 DEF remove_nonprint, Contents
    <2>2. CASE k <= Len(s)
      <3>1. (s \o t)[k] = s[k] /\ r[k] = remove_nonprint(s)[k]
        BY <1>2, <2>2, NonprintTyped DEF Contents
      <3> QED
        BY <1>2, <2>1, <2>2, <3>1 DEF remove_nonprint, Contents
    <2>3. CASE ~(k <= Len(s))
      <3>1. k - Len(s) \in 1 .. Len(t)
        BY <1>2, <2>3 DEF Contents
      <3>2. (s \o t)[k] = t[k - Len(s)] /\ r[k] = remove_nonprint(t)[k - Len(s)]
        BY <1>2, <2>3, NonprintTyped DEF Contents
      <3> QED
        BY <2>1, <3>1, <3>2 DEF remove_nonprint, Contents
    <2> QED
      BY <2>2, <2>3
  <1> HIDE DEF l, r
  <1>5. l = r
    BY <1>2, <1>3, <1>4, SeqEqual
  <1> QED
    BY <1>5 DEF l, r

\* The same texts one after the other, as an operator of which only these three facts are used.
s ++ t == s \o t

LEMMA Joining ==
  /\ \A s, t \in Contents : s ++ t \in Contents
  /\ \A s, t, u \in Contents : (s ++ t) ++ u = s ++ (t ++ u)
  /\ \A s, t \in Contents : remove_nonprint(s ++ t) = remove_nonprint(s) ++ remove_nonprint(t)
  <1>1. ASSUME NEW s \in Contents, NEW t \in Contents PROVE s ++ t \in Contents
    BY ConcatProperties DEF ++, Contents
  <1>2. ASSUME NEW s \in Contents, NEW t \in Contents, NEW u \in Contents
        PROVE  (s ++ t) ++ u = s ++ (t ++ u)
    BY ConcatAssociative DEF ++, Contents
  <1>3. ASSUME NEW s \in Contents, NEW t \in Contents
        PROVE  remove_nonprint(s ++ t) = remove_nonprint(s) ++ remove_nonprint(t)
    BY NonprintConcat DEF ++
  <1> QED
    BY <1>1, <1>2, <1>3

LEMMA WholeJoined ==
  /\ Whole = echoed ++ remove_nonprint(((console ++ shift) ++ tx) ++ out)
  /\ Whole' = echoed' ++ remove_nonprint(((console' ++ shift') ++ tx') ++ out')
  BY DEF Whole, ++

\* A program's start: nothing has been printed.
LEMMA InitPrintInv == InstallInit => PrintInv
  BY DEF InstallInit, PrintInv, PrintTypes, RunPC, Contents, NoCharLost

\* What pi3-install does before the echo, and what the user and the ttys do, moves no character.
PrintVars == <<run_pc, text, out, tx, shift, console, echoed>>

LEMMA StillPrintInv == PrintInv /\ UNCHANGED PrintVars => PrintInv'
  BY DEF PrintInv, PrintTypes, PrintVars, NoCharLost, Whole

LEMMA ReadPiPrintInv == PrintInv /\ ReadPi => PrintInv'
  <1> SUFFICES ASSUME PrintInv, ReadPi PROVE PrintInv'
    OBVIOUS
  <1>1. PICK n \in 1 .. Len(console) :
          /\ console' = Rest(console, n)
          /\ echoed' = echoed \o remove_nonprint(Front(console, n))
    BY DEF ReadPi
  <1>2. UNCHANGED <<run_pc, text, out, tx, shift>> /\ console # <<>>
    BY DEF ReadPi, pi_side, uart_vars
  <1> DEFINE got == Front(console, n)
             left == Rest(console, n)
  <1>3. got \in Contents /\ left \in Contents /\ console = got ++ left
    BY DEF PrintInv, PrintTypes, Contents, Front, Rest, ++
  <1>4. echoed' = echoed ++ remove_nonprint(got) /\ console' = left
    BY <1>1 DEF ++
  <1> HIDE DEF got, left
  <1>5. remove_nonprint(got) \in Contents
    BY <1>3, NonprintTyped
  <1>6. PrintTypes'
    BY <1>2, <1>3, <1>4, <1>5, Joining DEF PrintInv, PrintTypes
  <1>7. Whole' = Whole
    <2> DEFINE rest == (shift ++ tx) ++ out
    <2>1. /\ console \in Contents /\ shift \in Contents /\ tx \in Contents /\ out \in Contents
          /\ echoed \in Contents
      BY DEF PrintInv, PrintTypes
    <2>2. ASSUME NEW c \in Contents
          PROVE  ((c ++ shift) ++ tx) ++ out = c ++ rest
      BY <2>1, Joining
    <2>3. rest \in Contents
      BY <2>1, Joining
    <2> HIDE DEF rest
    <2>4. console ++ rest = got ++ (left ++ rest) /\ left ++ rest \in Contents
      BY <1>3, <2>3, Joining
    <2>5. Whole = echoed ++ (remove_nonprint(got) ++ remove_nonprint(left ++ rest))
      BY <1>3, <2>1, <2>2, <2>4, Joining, WholeJoined
    <2>6. Whole' = echoed' ++ remove_nonprint(((console' ++ shift') ++ tx') ++ out')
      BY WholeJoined
    <2>7. Whole' = (echoed ++ remove_nonprint(got)) ++ remove_nonprint(left ++ rest)
      BY <1>2, <1>3, <1>4, <2>2, <2>6
    <2>8. remove_nonprint(left ++ rest) \in Contents
      BY <2>4, NonprintTyped
    <2> QED
      BY <1>5, <2>1, <2>5, <2>7, <2>8, Joining
  <1>8. run_pc \notin {"bootloader", "init", "busy"}
    BY <1>2 DEF PrintInv
  <1> QED
    BY <1>2, <1>6, <1>7, <1>8 DEF PrintInv, NoCharLost

LEMMA ProgramPrintInv == PrintInv /\ (ProgramStep \/ UartStep) => PrintInv'
  <1> SUFFICES ASSUME PrintInv, ProgramStep \/ UartStep PROVE PrintInv'
    OBVIOUS
  <1> USE DEF PrintInv, PrintTypes, Contents
  <1>1. CASE EnterProgram
    <2>1. text' \in Contents
      BY <1>1, InstallConstants DEF EnterProgram
    <2> QED
      BY <1>1, <2>1 DEF EnterProgram, host_side, echo_vars, uart_vars, RunPC, NoCharLost
  <1>2. CASE DisableUart
    BY <1>2 DEF DisableUart, host_side, echo_vars, RunPC, NoCharLost
  <1>3. CASE EnableUart
    BY <1>3 DEF EnableUart, host_side, echo_vars, RunPC, NoCharLost
  <1>4. CASE StartPrinting
    <2>1. Whole' = remove_nonprint(text)
      <3>1. Whole' = <<>> \o remove_nonprint(<<>> \o <<>> \o <<>> \o text)
        BY <1>4 DEF StartPrinting, host_side, echo_vars, uart_vars, Whole
      <3>2. remove_nonprint(text) \in Seq(Chars)
        BY NonprintTyped
      <3> QED
        BY <3>1, <3>2
    <2> QED
      BY <1>4, <2>1 DEF StartPrinting, host_side, echo_vars, uart_vars, RunPC, NoCharLost
  <1>5. CASE PutChar
    <2>1. tx' = Append(tx, Head(out)) /\ out' = Tail(out) /\ out # <<>>
      BY <1>5 DEF PutChar, rpi_putchar, uart_put8, Stored
    <2>2. tx' \in Seq(Chars) /\ out' \in Seq(Chars)
      BY <2>1
    <2>3. tx' ++ out' = tx ++ out
      BY <2>1 DEF ++
    <2>4. ((console ++ shift) ++ tx') ++ out' = ((console ++ shift) ++ tx) ++ out
      <3> HIDE DEF Contents
      <3>1. (console ++ shift) \in Contents /\ tx \in Contents /\ out \in Contents
        BY Joining
      <3>2. tx' \in Contents /\ out' \in Contents
        BY <2>2 DEF Contents
      <3> QED
        BY <2>3, <3>1, <3>2, Joining
    <2> QED
      BY <1>5, <2>2, <2>4, WholeJoined DEF PutChar, host_side, echo_vars, RunPC, NoCharLost
  <1>6. CASE RebootProgram
    <2>1. tx = <<>> /\ shift = <<>>
      BY <1>6 DEF RebootProgram, uart_flush_tx, uart_tx_is_empty, Busy
    <2> QED
      BY <1>6, <2>1 DEF RebootProgram, host_side, echo_vars, RunPC, NoCharLost, Whole
  <1>7. CASE LoadShift
    <2>1. shift = <<>> /\ shift' = <<Head(tx)>> /\ tx' = Tail(tx) /\ tx # <<>>
      BY <1>7 DEF LoadShift
    <2>2. shift' \in Seq(Chars) /\ tx' \in Seq(Chars)
      BY <2>1
    <2>3. console \o shift' \o tx' \o out = console \o shift \o tx \o out
      BY <2>1, <2>2
    <2> QED
      BY <1>7, <2>1, <2>2, <2>3 DEF LoadShift, host_side, echo_vars, RunPC, NoCharLost, Whole
  <1>8. CASE Transmit
    <2>1. console' = console \o shift /\ shift' = <<>> /\ shift # <<>>
      BY <1>8 DEF Transmit
    <2>2. console' \o shift' \o tx \o out = console \o shift \o tx \o out
      BY <2>1
    <2> QED
      BY <1>8, <2>1, <2>2 DEF Transmit, host_side, echo_vars, RunPC, NoCharLost, Whole
  <1> QED
    BY <1>1, <1>2, <1>3, <1>4, <1>5, <1>6, <1>7, <1>8 DEF ProgramStep, UartStep

LEMMA HostKeepsPrint == InstallStep \/ PlugOrUnplug => ReadPi \/ UNCHANGED PrintVars
  BY DEF InstallStep, PlugOrUnplug, ParseOptions, ScanDev, StatNext, Selected, OpenTty,
     SetTty, ReadFile, StartEcho, ReadStdin, NothingToRead, TtyGone, PrintVars, pi_side,
     uart_vars, echo_vars

LEMMA BootKeepsPrint == HostInBoot \/ PiInBoot \/ LineInBoot => UNCHANGED PrintVars
  BY DEF HostInBoot, PiInBoot, LineInBoot, PrintVars, install_vars, pi_side, uart_vars,
     host_side, echo_vars

LEMMA PrintInvKept == PrintInv /\ [InstallNext]_all_vars => PrintInv'
  <1> SUFFICES ASSUME PrintInv, [InstallNext]_all_vars PROVE PrintInv'
    OBVIOUS
  <1>1. CASE InstallStep \/ PlugOrUnplug
    BY <1>1, HostKeepsPrint, ReadPiPrintInv, StillPrintInv
  <1>2. CASE HostInBoot \/ PiInBoot \/ LineInBoot
    BY <1>2, BootKeepsPrint, StillPrintInv
  <1>3. CASE ProgramStep \/ UartStep
    BY <1>3, ProgramPrintInv
  <1>4. CASE UNCHANGED all_vars
    <2>1. UNCHANGED PrintVars
      BY <1>4 DEF all_vars, install_vars, host_side, echo_vars, pi_side, uart_vars, PrintVars
    <2> QED
      BY <2>1, StillPrintInv
  <1> QED
    BY <1>1, <1>2, <1>3, <1>4 DEF InstallNext

\* No character that the program printed is lost or overtaken on its way to the host, for any
\* output, any depth of the FIFO and any way in which read cuts the stream: uart_init, uart_put8
\* and the reboot all wait for what is under way (uart.c, reboot.c, pi-echo.c).
THEOREM OutputIsKept == InstallSpec => []NoCharLost
  <1>1. PrintInv => NoCharLost
    BY DEF PrintInv
  <1> QED
    BY InitPrintInv, PrintInvKept, <1>1, PTL DEF InstallSpec
=============================================================================
