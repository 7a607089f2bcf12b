--------------------------------- MODULE Emmc ---------------------------------
(***************************************************************************)
(* The SD card driver: emmc.c, and pi-sd.c on top of it, against a         *)
(* controller and a card that may fail.                                    *)
(*                                                                         *)
(* emmc_issue_command is one step up to the response of the card: the      *)
(* driver waits for it and nothing else runs.  The blocks of a transfer    *)
(* are steps of their own, for a transfer may fail half way and be retried *)
(* into the same buffer.  The card is the one of the SD specification, as  *)
(* far as the commands the driver sends can tell.                          *)
(***************************************************************************)
EXTENDS Integers

CONSTANTS
  Attempts,          \* how often emmc_init resets the card (10 in the code)
  MaxRetries,        \* max_retries of do_data_command (3)
  MaxXfer,           \* transfer_blocks may not exceed it (0xFFFF)
  Lbas,              \* sectors at which reads begin
  MaxBusy,           \* how often a card may say that it is still powering up
  MaxFaults,         \* how many commands and blocks may go wrong
  DoneAfterTimeout   \* the controller may report a transfer as complete that
                     \* a data timeout has cut short

ASSUME EmmcConstants ==
  /\ Attempts \in Nat \ {0} /\ MaxRetries \in Nat \ {0} /\ MaxXfer \in Nat \ {0}
  /\ Lbas \subseteq Nat
  /\ DoneAfterTimeout \in BOOLEAN
  /\ MaxBusy \in Nat /\ MaxFaults \in Nat

VARIABLES
  pc,        \* where the driver is
  attempt,   \* i in emmc_init
  v2_card,   \* emmc_card_reset's local
  device,    \* device.rca, .sdhc, .last_error
  card,      \* the card: its kind (hc: of high capacity, addressed by sector and
             \* not by byte), state and address, whether it has seen SEND_IF_COND
             \* (v2), how long it will be busy, from where it sends
  lba, nsec, \* the arguments of pi_sd_read
  retry_count, block,
  buffer,    \* the sector each block of the buffer was read from, or NoSector
  data_err,  \* the error bits a transfer has left in int_flags
  faults

request == <<lba, nsec>>
transfer == <<retry_count, block, buffer, data_err>>
vars == <<pc, attempt, v2_card, device, card, request, transfer, faults>>

NoSector == -1
Rcas == {1, 2}   \* addresses a card may publish; 0 is its address before
Errors == {"none", "cto", "dto", "other"}
CardStates == {"idle", "ready", "ident", "stby", "tran", "data"}
InitSteps == {"reset", "go_idle", "send_if_cond", "io_set_op_cond", "ocr", "sdhc",
              "cid", "relative_addr", "select", "block_len", "scr"}
ReadSteps == {"command", "transfer", "done"}

TypeOK ==
  /\ pc \in {"off", "idle", "dead"} \cup InitSteps \cup ReadSteps
  /\ attempt \in 0 .. Attempts
  /\ v2_card \in BOOLEAN
  /\ device \in [rca : Rcas \cup {0}, sdhc : BOOLEAN, last_error : Errors]
  /\ card \in [hc : BOOLEAN, state : CardStates, rca : Rcas \cup {0}, v2 : BOOLEAN,
              busy : 0 .. MaxBusy, pos : Nat]
  /\ lba \in Lbas \cup {0}
  /\ nsec \in 0 .. (MaxXfer + 1)
  /\ retry_count \in 0 .. MaxRetries
  /\ block \in 0 .. MaxXfer
  /\ buffer \in [0 .. MaxXfer -> Nat \cup {NoSector}]
  /\ data_err \in Errors
  /\ faults \in 0 .. MaxFaults

Fresh == [i \in 0 .. MaxXfer |-> NoSector]

\* The card has just been powered up, or is as an earlier program left it.
Init ==
  /\ pc = "off" /\ attempt = 0 /\ v2_card = FALSE
  /\ device = [rca |-> 0, sdhc |-> FALSE, last_error |-> "none"]
  /\ \E h \in BOOLEAN, b \in 0 .. MaxBusy :
       \/ card = [hc |-> h, state |-> "idle", rca |-> 0, v2 |-> FALSE, busy |-> b, pos |-> 0]
       \/ card = [hc |-> h, state |-> "tran", rca |-> 1, v2 |-> TRUE, busy |-> 0, pos |-> 0]
  /\ lba = 0 /\ nsec = 0
  /\ retry_count = 0 /\ block = 0 /\ buffer = Fresh /\ data_err = "none"
  /\ faults = 0

-----------------------------------------------------------------------------
\* The card.

\* The card answers this command with this argument; otherwise it keeps silent.
Accepts(cmd, arg) ==
  CASE cmd = "GO_IDLE" -> TRUE
    [] cmd = "SEND_IF_COND" -> card.state = "idle"
    [] cmd = "IO_SET_OP_COND" -> FALSE  \* a memory card, not an SDIO card
    [] cmd \in {"OCR", "OCR_START"} -> card.state = "idle" /\ arg = card.rca
    [] cmd = "SEND_CID" -> card.state = "ready"
    [] cmd = "RELATIVE_ADDR" -> card.state \in {"ident", "stby"}
    [] cmd = "SELECT" -> card.state = "stby" /\ arg = card.rca
    [] cmd = "SET_BLOCK_LEN" -> card.state = "tran"
    [] cmd = "SEND_SCR" -> card.state = "tran" /\ arg = card.rca
    [] cmd \in {"READ", "READ_MULTIPLE"} -> card.state = "tran"

\* A card of high capacity powers up only for a host that says it knows them.
Obeyed(cmd, arg, hcs) ==
  CASE cmd = "GO_IDLE" -> {[card EXCEPT !.state = "idle", !.rca = 0, !.v2 = FALSE, !.busy = b] :
                             b \in 0 .. MaxBusy}
    [] cmd = "SEND_IF_COND" -> {[card EXCEPT !.v2 = TRUE]}
    [] cmd = "OCR_START" -> {IF card.hc /\ ~(card.v2 /\ hcs) THEN card
                             ELSE IF card.busy > 0 THEN [card EXCEPT !.busy = @ - 1]
                             ELSE [card EXCEPT !.state = "ready"]}
    [] cmd = "SEND_CID" -> {[card EXCEPT !.state = "ident"]}
    [] cmd = "RELATIVE_ADDR" -> {[card EXCEPT !.state = "stby", !.rca = r] : r \in Rcas}
    [] cmd = "SELECT" -> {[card EXCEPT !.state = "tran"]}
    [] cmd \in {"READ", "READ_MULTIPLE"} ->
         {[card EXCEPT !.state = "data", !.pos = IF card.hc THEN arg ELSE arg \div 512]}
    [] cmd \in {"IO_SET_OP_COND", "OCR", "SET_BLOCK_LEN", "SEND_SCR"} -> {card}

\* What may become of a command: how emmc_issue_command ends, the card after it
\* and whether that counts as a fault.  "other" is a damaged response, after
\* which the card may have obeyed all the same; at "stuck" no flag is ever set.
Outcomes(cmd, arg, hcs) ==
  LET after == IF Accepts(cmd, arg) THEN Obeyed(cmd, arg, hcs) ELSE {card}
  IN  [end : IF Accepts(cmd, arg) THEN {"ok"} ELSE {"cto"}, card : after, fault : {0}]
        \cup [end : {"cto", "stuck"}, card : {card}, fault : {1}]
        \cup [end : {"other"}, card : after \cup {card}, fault : {1}]

Fault(n) == faults' = faults + n /\ faults' <= MaxFaults

\* set_last_error is not reached when emmc_issue_command times out.
LastError(end) == IF end \in {"ok", "stuck"} THEN device.last_error ELSE end

\* emmc_command and emmc_app_command (APP and the command as one exchange; APP
\* carries device.rca), for a command that transfers nothing.
Command(cmd, arg, hcs, o) ==
  /\ o \in Outcomes(cmd, arg, hcs)
  /\ Fault(o.fault)
  /\ card' = o.card

-----------------------------------------------------------------------------
\* emmc_init and emmc_card_reset.

StartInit ==
  /\ pc = "off"
  /\ pc' = "reset"
  /\ attempt' = 0
  /\ device' = [device EXCEPT !.sdhc = FALSE, !.rca = 0]
  /\ UNCHANGED <<v2_card, card, request, transfer, faults>>

\* After the last attempt pi_sd_init panics.
AttemptFails ==
  /\ attempt' = attempt + 1
  /\ pc' = IF attempt' < Attempts THEN "reset" ELSE "dead"

\* The step of the reset at pc = from: the command, and where it leads.
Step(from, to, cmd, arg, o) ==
  /\ pc = from
  /\ Command(cmd, arg, v2_card, o)
  /\ IF o.end = "ok" THEN pc' = to /\ attempt' = attempt ELSE AttemptFails
  /\ UNCHANGED <<request, transfer>>

NoteError(o) == device' = [device EXCEPT !.last_error = LastError(o.end)]

\* After a command with data or a busy signal the driver waits for the data-done
\* flag too, and notes what it finds beside it.
NoteDoneError(o) ==
  \E e \in IF o.fault = 0 THEN {LastError(o.end)} ELSE Errors :
    device' = [device EXCEPT !.last_error = e]

\* The controller's reset and its clock.
HostReset ==
  /\ pc = "reset"
  /\ \/ pc' = "go_idle" /\ attempt' = attempt /\ Fault(0)
     \/ AttemptFails /\ Fault(1)
  /\ UNCHANGED <<v2_card, device, card, request, transfer>>

GoIdle == \E o \in Outcomes("GO_IDLE", 0, FALSE) :
  Step("go_idle", "send_if_cond", "GO_IDLE", 0, o) /\ NoteError(o) /\ UNCHANGED v2_card

\* Whatever fails here, the reset goes on, with a card taken for an old one.
CheckV2Card == \E o \in Outcomes("SEND_IF_COND", 0, FALSE) :
  /\ pc = "send_if_cond"
  /\ Command("SEND_IF_COND", 0, FALSE, o)
  /\ v2_card' = (o.end = "ok")
  /\ pc' = "io_set_op_cond"
  /\ NoteError(o)
  /\ UNCHANGED <<attempt, request, transfer>>

\* A command timeout is the normal case, if reset_command clears it; a command
\* that is stuck is judged by whatever error was the last one.
CheckUsableCard == \E o \in Outcomes("IO_SET_OP_COND", 0, FALSE), reset_fails \in {0, 1} :
  /\ pc = "io_set_op_cond"
  /\ card' = o.card
  /\ Fault(o.fault + reset_fails)
  /\ NoteError(o)
  /\ reset_fails = 1 => o.end # "ok" /\ device'.last_error = "cto"
  /\ IF reset_fails = 0 /\ (o.end = "ok" \/ device'.last_error \in {"none", "cto"})
       THEN pc' = "ocr" /\ attempt' = attempt
       ELSE AttemptFails
  /\ UNCHANGED <<v2_card, request, transfer>>

\* The loop of five tries returns after the first one.
CheckOcr == \E o \in Outcomes("OCR", device.rca, FALSE) :
  Step("ocr", "sdhc", "OCR", device.rca, o) /\ NoteError(o) /\ UNCHANGED v2_card

\* Slip: what the card says of its capacity is not kept.
CheckSdhcForgotten == \E o \in Outcomes("OCR_START", device.rca, v2_card) :
  /\ Step("sdhc", IF o.card.state = "ready" THEN "cid" ELSE "sdhc", "OCR_START", device.rca, o)
  /\ NoteError(o)
  /\ UNCHANGED v2_card

\* As long as the card is busy it is asked again.
CheckSdhcSupport == \E o \in Outcomes("OCR_START", device.rca, v2_card) :
  /\ Step("sdhc", IF o.card.state = "ready" THEN "cid" ELSE "sdhc", "OCR_START", device.rca, o)
  /\ device' = [device EXCEPT !.last_error = LastError(o.end),
                              !.sdhc = IF o.end = "ok" /\ o.card.state = "ready"
                                         THEN o.card.hc ELSE @]
  /\ UNCHANGED v2_card

SendCid == \E o \in Outcomes("SEND_CID", 0, FALSE) :
  Step("cid", "relative_addr", "SEND_CID", 0, o) /\ NoteError(o) /\ UNCHANGED v2_card

\* Slip: the address is not taken from the response.
SendRelativeAddrForgotten == \E o \in Outcomes("RELATIVE_ADDR", 0, FALSE) :
  /\ Step("relative_addr", "select", "RELATIVE_ADDR", 0, o)
  /\ NoteError(o)
  /\ UNCHANGED v2_card

SendRelativeAddr == \E o \in Outcomes("RELATIVE_ADDR", 0, FALSE) :
  /\ Step("relative_addr", "select", "RELATIVE_ADDR", 0, o)
  /\ device' = [device EXCEPT !.last_error = LastError(o.end),
                              !.rca = IF o.end = "ok" THEN o.card.rca ELSE @]
  /\ UNCHANGED v2_card

SelectCard == \E o \in Outcomes("SELECT", device.rca, FALSE) :
  /\ Step("select", IF device.sdhc THEN "scr" ELSE "block_len", "SELECT", device.rca, o)
  /\ NoteDoneError(o)
  /\ UNCHANGED v2_card

SetBlockLen == \E o \in Outcomes("SET_BLOCK_LEN", 0, FALSE) :
  Step("block_len", "scr", "SET_BLOCK_LEN", 0, o) /\ NoteError(o) /\ UNCHANGED v2_card

\* The SCR's eight bytes, of which nothing is used, come with the command.
SendScr == \E o \in Outcomes("SEND_SCR", device.rca, FALSE) :
  Step("scr", "idle", "SEND_SCR", device.rca, o) /\ NoteDoneError(o) /\ UNCHANGED v2_card

InitStep ==
  \/ HostReset \/ GoIdle \/ CheckV2Card \/ CheckUsableCard \/ CheckOcr \/ CheckSdhcSupport
  \/ SendCid \/ SendRelativeAddr \/ SelectCard \/ SetBlockLen \/ SendScr

-----------------------------------------------------------------------------
\* pi_sd_read, emmc_read, do_data_command.

\* An empty read is an invalid block size, and pi_sd_read panics.
BeginRead(l, n) ==
  /\ pc = "idle"
  /\ lba' = l /\ nsec' = n
  /\ pc' = IF n = 0 THEN "dead" ELSE "command"
  /\ retry_count' = 0 /\ block' = 0 /\ buffer' = Fresh /\ data_err' = "none"
  /\ UNCHANGED <<attempt, v2_card, device, card, faults>>

\* Slip: the tries are not counted.
RetryForever ==
  /\ pc' = "command"
  /\ UNCHANGED retry_count

\* After the last try emmc_read returns -1 and pi_sd_read panics.
RetryOrGiveUp ==
  /\ retry_count' = retry_count + 1
  /\ pc' = IF retry_count' < MaxRetries THEN "command" ELSE "dead"

ReadCommand == IF nsec > 1 THEN "READ_MULTIPLE" ELSE "READ"
Address == IF device.sdhc THEN lba ELSE lba * 512

IssueRead ==
  /\ pc = "command"
  /\ nsec <= MaxXfer
  /\ \E o \in Outcomes(ReadCommand, Address, FALSE) :
       /\ Command(ReadCommand, Address, FALSE, o)
       /\ NoteError(o)
       /\ IF o.end = "ok" THEN pc' = "transfer" /\ block' = 0 /\ UNCHANGED retry_count
                          ELSE RetryOrGiveUp /\ UNCHANGED block
  /\ UNCHANGED <<attempt, v2_card, request, buffer, data_err>>

\* emmc_issue_command refuses more blocks than the register holds.
RefuseRead ==
  /\ pc = "command"
  /\ nsec > MaxXfer
  /\ RetryOrGiveUp
  /\ UNCHANGED <<attempt, v2_card, device, card, request, block, buffer, data_err, faults>>

\* do_data_transfer: one block, or an error, or nothing within two seconds.
ReadBlock ==
  /\ pc = "transfer"
  /\ block < nsec
  /\ Fault(0)
  /\ buffer' = [buffer EXCEPT ![block] = card.pos + block]
  /\ block' = block + 1
  /\ UNCHANGED <<pc, attempt, v2_card, device, card, request, retry_count, data_err>>

LoseBlock ==
  /\ pc = "transfer"
  /\ block < nsec
  /\ Fault(1)
  /\ \E e \in {"none", "dto", "other"} :
       /\ data_err' = e
       /\ device' = [device EXCEPT !.last_error = e]
  /\ pc' = "done"
  /\ UNCHANGED <<attempt, v2_card, card, request, retry_count, block, buffer>>

TransferEnds ==
  /\ pc = "transfer"
  /\ block = nsec
  /\ pc' = "done"
  /\ UNCHANGED <<attempt, v2_card, device, card, request, transfer, faults>>

\* The result of do_data_transfer is ignored; what counts is the data-done flag,
\* and that no error but a data timeout stands beside it.  A card that is cut
\* short goes on sending unless it was asked for one block only.
DoneFlags ==
  IF block = nsec THEN {[done |-> TRUE, err |-> "none", fault |-> 0]}
                         \cup [done : {TRUE}, err : {"dto", "other"}, fault : {1}]
                         \cup [done : {FALSE}, err : Errors \ {"cto"}, fault : {1}]
  ELSE {[done |-> data_err = "dto" /\ DoneAfterTimeout, err |-> data_err, fault |-> 0]}

\* Slip: the flags are not looked at after the wait.
AwaitDoneUnchecked ==
  /\ pc = "done"
  /\ pc' = "idle"
  /\ card' = [card EXCEPT !.state = "tran"]
  /\ UNCHANGED <<attempt, v2_card, device, request, transfer, faults>>

AwaitDone ==
  /\ pc = "done"
  /\ \E f \in DoneFlags :
       /\ Fault(f.fault)
       /\ IF f.done /\ f.err \in {"none", "dto"}
            THEN pc' = "idle" /\ UNCHANGED <<device, retry_count>>
            ELSE RetryOrGiveUp /\ device' = [device EXCEPT !.last_error = f.err]
  /\ card' = [card EXCEPT !.state = IF block = nsec \/ nsec = 1 THEN "tran" ELSE "data"]
  /\ data_err' = "none"
  /\ UNCHANGED <<attempt, v2_card, request, block, buffer>>

ReadStep == IssueRead \/ RefuseRead \/ ReadBlock \/ TransferEnds \/ AwaitDone

Client == StartInit \/ \E l \in Lbas, n \in 0 .. (MaxXfer + 1) : BeginRead(l, n)

Next == Client \/ InitStep \/ ReadStep \/ LoseBlock

Spec == Init /\ [][Next]_vars

\* The driver runs; the program above it need not read.
FairSpec == Spec /\ WF_vars(InitStep) /\ WF_vars(ReadStep) /\ WF_vars(StartInit)

-----------------------------------------------------------------------------
\* What must hold.

\* Outside a read the buffer holds the sectors asked for, all of them and in
\* their order ("read nsec sectors of the SD card starting at lba", pi-sd.h),
\* whatever failed and was retried on the way.
ReadIsWhole ==
  pc = "idle" => \A i \in 0 .. (nsec - 1) : buffer[i] = lba + i

\* When emmc_init has succeeded the driver and the card agree: on the card's
\* address, on what an address means, and that data may be transferred.
InitMeansReady ==
  pc = "idle" => /\ card.state = "tran"
                 /\ card.rca = device.rca /\ card.rca # 0
                 /\ device.sdhc = card.hc

\* A card without faults is brought up, however long it is busy.
FaultlessInit == [](faults = 0) => <>(pc = "idle")

\* Every read comes to an end.
ReadEnds == pc \in ReadSteps ~> pc \in {"idle", "dead"}

\* "Failed to reset card, trying again..." (emmc.c): emmc_init gives up only
\* when each of its attempts has met with a fault of its own.
RetriesAreTries == pc = "dead" /\ attempt = Attempts => faults >= Attempts
=============================================================================
