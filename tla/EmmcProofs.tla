------------------------------ MODULE EmmcProofs ------------------------------
(***************************************************************************)
(* Proofs about Emmc: what a read has put into the buffer when it succeeds *)
(* and what a successful bring-up means, for any numbers of faults, tries  *)
(* and sectors, and either kind of card.                                   *)
(***************************************************************************)
EXTENDS Emmc, TLAPS

\* Neither count exceeds its bound while there is more to come.
CountInv ==
  /\ pc \in InitSteps => attempt < Attempts
  /\ pc \in ReadSteps => retry_count < MaxRetries

\* The driver's picture of the card, as far as the reset has come.
PictureInv ==
  /\ pc \in {"cid", "relative_addr", "select", "block_len", "scr", "idle"} \cup ReadSteps =>
       device.sdhc = card.hc
  /\ pc \in {"select", "block_len", "scr", "idle"} \cup ReadSteps =>
       card.rca = device.rca /\ card.rca # 0
  /\ pc = "idle" => card.state = "tran"

\* The blocks a transfer has read are the first ones that were asked for.
TransferInv ==
  /\ pc \in {"off"} \cup InitSteps => nsec = 0
  /\ pc \in {"transfer", "done"} =>
       /\ nsec <= MaxXfer /\ block <= nsec
       /\ card.pos = lba
       /\ \A i \in 0 .. (block - 1) : buffer[i] = lba + i

IInv == TypeOK /\ CountInv /\ PictureInv /\ TransferInv /\ ReadIsWhole

CardSet == [hc : BOOLEAN, state : CardStates, rca : Rcas \cup {0}, v2 : BOOLEAN,
            busy : 0 .. MaxBusy, pos : Nat]

DeviceSet == [rca : Rcas \cup {0}, sdhc : BOOLEAN, last_error : Errors]

Commands == {"GO_IDLE", "SEND_IF_COND", "IO_SET_OP_COND", "OCR", "OCR_START", "SEND_CID",
             "RELATIVE_ADDR", "SELECT", "SET_BLOCK_LEN", "SEND_SCR", "READ", "READ_MULTIPLE"}

\* A command leaves a card that is still one, of the same kind.
LEMMA ObeyedType ==
  ASSUME TypeOK, NEW cmd \in Commands, NEW arg \in Nat, NEW hcs \in BOOLEAN, NEW c \in Obeyed(cmd, arg, hcs)
  PROVE  c \in CardSet /\ c.hc = card.hc
  <1>0. card \in CardSet
    BY DEF TypeOK, CardSet
  <1>1. CASE cmd = "GO_IDLE"
    <2>1. PICK b \in 0 .. MaxBusy :
            c = [card EXCEPT !.state = "idle", !.rca = 0, !.v2 = FALSE, !.busy = b]
      BY <1>1 DEF Obeyed
    <2> QED
      BY <1>0, <2>1 DEF CardSet, CardStates
  <1>2. CASE cmd = "OCR_START"
    <2>1. \/ c = card
          \/ card.busy > 0 /\ c = [card EXCEPT !.busy = card.busy - 1]
          \/ c = [card EXCEPT !.state = "ready"]
      BY <1>2 DEF Obeyed
    <2>2. card.busy > 0 => card.busy - 1 \in 0 .. MaxBusy
      BY <1>0, EmmcConstants DEF CardSet
    <2> QED
      BY <1>0, <2>1, <2>2 DEF CardSet, CardStates
  <1>3. CASE cmd = "RELATIVE_ADDR"
    <2>1. PICK r \in Rcas : c = [card EXCEPT !.state = "stby", !.rca = r]
      BY <1>3 DEF Obeyed
    <2> QED
      BY <1>0, <2>1 DEF CardSet, CardStates
  <1>4. CASE cmd \in {"READ", "READ_MULTIPLE"}
    <2> DEFINE p == IF card.hc THEN arg ELSE arg \div 512
    <2>1. c = [card EXCEPT !.state = "data", !.pos = p]
      BY <1>4 DEF Obeyed
    <2>2. p \in Nat
      OBVIOUS
    <2> HIDE DEF p
    <2> QED
      BY <1>0, <2>1, <2>2 DEF CardSet, CardStates
  <1>5. CASE cmd \in {"SEND_IF_COND", "SEND_CID", "SELECT"}
    <2>1. CASE cmd = "SEND_IF_COND"
      <3>1. c = [card EXCEPT !.v2 = TRUE]
        BY <2>1 DEF Obeyed
      <3> QED
        BY <1>0, <3>1 DEF CardSet
    <2>2. CASE cmd = "SEND_CID"
      <3>1. c = [card EXCEPT !.state = "ident"]
        BY <2>2 DEF Obeyed
      <3> QED
        BY <1>0, <3>1 DEF CardSet, CardStates
    <2>3. CASE cmd = "SELECT"
      <3>1. c = [card EXCEPT !.state = "tran"]
        BY <2>3 DEF Obeyed
      <3> QED
        BY <1>0, <3>1 DEF CardSet, CardStates
    <2> QED
      BY <1>5, <2>1, <2>2, <2>3
  <1>6. CASE cmd \in {"IO_SET_OP_COND", "OCR", "SET_BLOCK_LEN", "SEND_SCR"}
    <2>1. Obeyed(cmd, arg, hcs) = {card}
      <3>1. CASE cmd = "IO_SET_OP_COND"
        BY <3>1 DEF Obeyed
      <3>2. CASE cmd = "OCR"
        BY <3>2 DEF Obeyed
      <3>3. CASE cmd = "SET_BLOCK_LEN"
        BY <3>3 DEF Obeyed
      <3>4. CASE cmd = "SEND_SCR"
        BY <3>4 DEF Obeyed
      <3> QED
        BY <1>6, <3>1, <3>2, <3>3, <3>4
    <2> QED
      BY <1>0, <2>1
  <1> QED
    BY <1>1, <1>2, <1>3, <1>4, <1>5, <1>6 DEF Commands

\* How an exchange with the card may end.
LEMMA Exchange ==
  ASSUME TypeOK, NEW cmd \in Commands, NEW arg \in Nat, NEW hcs \in BOOLEAN, NEW o \in Outcomes(cmd, arg, hcs)
  PROVE  /\ o.end \in {"ok", "cto", "stuck", "other"} /\ o.fault \in {0, 1}
         /\ o.card \in CardSet /\ o.card.hc = card.hc
         /\ o.end = "ok" => Accepts(cmd, arg) /\ o.card \in Obeyed(cmd, arg, hcs)
         /\ o.card \in Obeyed(cmd, arg, hcs) \cup {card}
         /\ LastError(o.end) \in Errors
  <1> DEFINE after == IF Accepts(cmd, arg) THEN Obeyed(cmd, arg, hcs) ELSE {card}
             end0 == IF Accepts(cmd, arg) THEN {"ok"} ELSE {"cto"}
  <1>1. \A c \in after : c \in CardSet /\ c.hc = card.hc
    BY ObeyedType DEF TypeOK, CardSet
  <1>2. \/ o \in [end : end0, card : after, fault : {0}]
        \/ o \in [end : {"cto", "stuck"}, card : {card}, fault : {1}]
        \/ o \in [end : {"other"}, card : after \cup {card}, fault : {1}]
    BY DEF Outcomes
  <1>3. /\ o.end \in {"ok", "cto", "stuck", "other"} /\ o.fault \in {0, 1}
        /\ o.card \in after \cup {card} /\ o.card \in Obeyed(cmd, arg, hcs) \cup {card}
        /\ o.end = "ok" => Accepts(cmd, arg) /\ o.card \in Obeyed(cmd, arg, hcs)
    BY <1>2
  <1>4. card \in CardSet
    BY DEF TypeOK, CardSet
  <1>5. LastError(o.end) \in Errors
    BY <1>3 DEF LastError, TypeOK, Errors
  <1>6. o.card \in CardSet /\ o.card.hc = card.hc
    <2> HIDE DEF after
    <2> QED
      BY <1>1, <1>3, <1>4
  <1> QED
    BY <1>3, <1>5, <1>6

\* The invariant holds before the driver has started.
LEMMA InitIInv == Init => IInv
  <1> SUFFICES ASSUME Init PROVE IInv
    OBVIOUS
  <1>1. card \in CardSet
    <2>1. PICK h \in BOOLEAN, b \in 0 .. MaxBusy :
            \/ card = [hc |-> h, state |-> "idle", rca |-> 0, v2 |-> FALSE, busy |-> b, pos |-> 0]
            \/ card = [hc |-> h, state |-> "tran", rca |-> 1, v2 |-> TRUE, busy |-> 0, pos |-> 0]
      BY DEF Init
    <2>2. 0 \in 0 .. MaxBusy
      BY EmmcConstants
    <2>3. CASE card = [hc |-> h, state |-> "idle", rca |-> 0, v2 |-> FALSE, busy |-> b, pos |-> 0]
      BY <2>3 DEF CardSet, CardStates
    <2>4. CASE card = [hc |-> h, state |-> "tran", rca |-> 1, v2 |-> TRUE, busy |-> 0, pos |-> 0]
      BY <2>2, <2>4 DEF CardSet, CardStates, Rcas
    <2> QED
      BY <2>1, <2>3, <2>4
  <1>2. Fresh \in [0 .. MaxXfer -> Nat \cup {NoSector}]
    BY DEF Fresh
  <1>3. device \in [rca : Rcas \cup {0}, sdhc : BOOLEAN, last_error : Errors]
    <2>1. device = [rca |-> 0, sdhc |-> FALSE, last_error |-> "none"]
      BY DEF Init
    <2> QED
      BY <2>1 DEF Errors
  <1>4. TypeOK
    <2>1. 0 \in 0 .. Attempts /\ 0 \in 0 .. (MaxXfer + 1) /\ 0 \in 0 .. MaxRetries
          /\ 0 \in 0 .. MaxXfer /\ 0 \in 0 .. MaxFaults
      BY EmmcConstants
    <2>2. pc = "off" /\ attempt = 0 /\ v2_card = FALSE /\ lba = 0 /\ nsec = 0 /\ retry_count = 0
          /\ block = 0 /\ buffer = Fresh /\ data_err = "none" /\ faults = 0
      BY DEF Init
    <2> QED
      BY <1>1, <1>2, <1>3, <2>1, <2>2 DEF TypeOK, CardSet, Errors
  <1> QED
    BY <1>4 DEF Init, IInv, CountInv, PictureInv, TransferInv, ReadIsWhole, InitSteps, ReadSteps

\* A step of the reset, wherever it leads.
LEMMA Reset ==
  ASSUME IInv, pc \in InitSteps, NEW to \in InitSteps \cup {"idle"},
         (pc' = to /\ attempt' = attempt) \/ AttemptFails,
         UNCHANGED <<request, transfer>>, v2_card' \in BOOLEAN,
         card' \in CardSet, device' \in DeviceSet,
         faults' \in 0 .. MaxFaults,
         pc' = to => PictureInv'
  PROVE  IInv'
  <1>1. attempt' \in 0 .. Attempts /\ (pc' \in InitSteps => attempt' < Attempts)
        /\ pc' \in InitSteps \cup {"idle", "dead"}
    BY EmmcConstants DEF IInv, CountInv, TypeOK, AttemptFails, InitSteps
  <1>2. PictureInv'
    <2>1. CASE pc' = to
      BY <2>1
    <2>2. CASE pc' # to
      BY <2>2 DEF AttemptFails, PictureInv, ReadSteps
    <2> QED
      BY <2>1, <2>2
  <1>3. TypeOK'
    BY <1>1 DEF IInv, TypeOK, CardSet, DeviceSet, request, transfer
  <1>4. nsec = 0 /\ pc' \notin ReadSteps
    BY <1>1 DEF IInv, TransferInv, InitSteps, ReadSteps
  <1> QED
    BY <1>1, <1>2, <1>3, <1>4
       DEF IInv, CountInv, TransferInv, ReadIsWhole, request, ReadSteps

\* What noting an error does to the driver's record.
LEMMA Noted ==
  ASSUME TypeOK, NEW o, LastError(o.end) \in Errors, NoteError(o) \/ NoteDoneError(o)
  PROVE  device' \in DeviceSet /\ device'.rca = device.rca /\ device'.sdhc = device.sdhc
  <1>1. PICK e \in Errors : device' = [device EXCEPT !.last_error = e]
    BY DEF NoteError, NoteDoneError
  <1> QED
    BY <1>1 DEF TypeOK, DeviceSet

\* A step of the reset leads on only if the card has answered and obeyed.
LEMMA StepFacts ==
  ASSUME IInv, NEW from \in InitSteps, NEW to \in (InitSteps \ {"reset"}) \cup {"idle"},
         NEW cmd \in Commands, NEW arg \in Nat, NEW o, Step(from, to, cmd, arg, o)
  PROVE  /\ pc = from
         /\ (pc' = to /\ attempt' = attempt) \/ AttemptFails
         /\ UNCHANGED <<request, transfer>> /\ faults' \in 0 .. MaxFaults
         /\ card' = o.card /\ card' \in CardSet /\ card'.hc = card.hc
         /\ LastError(o.end) \in Errors
         /\ pc' = to => o.end = "ok" /\ Accepts(cmd, arg) /\ card' \in Obeyed(cmd, arg, v2_card)
  <1>1. pc = from /\ o \in Outcomes(cmd, arg, v2_card) /\ faults' = faults + o.fault /\ faults' <= MaxFaults
        /\ card' = o.card /\ UNCHANGED <<request, transfer>>
        /\ ((o.end = "ok" /\ pc' = to /\ attempt' = attempt) \/ AttemptFails)
    BY DEF Step, Command, Fault
  <1>2. TypeOK /\ v2_card \in BOOLEAN /\ faults \in 0 .. MaxFaults
    BY DEF IInv, TypeOK
  <1>3. /\ o.end \in {"ok", "cto", "stuck", "other"} /\ o.fault \in {0, 1}
        /\ o.card \in CardSet /\ o.card.hc = card.hc
        /\ o.end = "ok" => Accepts(cmd, arg) /\ o.card \in Obeyed(cmd, arg, v2_card)
        /\ LastError(o.end) \in Errors
    BY <1>1, <1>2, Exchange
  <1>4. faults' \in 0 .. MaxFaults
    BY <1>1, <1>2, <1>3, EmmcConstants
  <1>5. AttemptFails => pc' # to
    BY DEF AttemptFails, InitSteps
  <1> QED
    BY <1>1, <1>3, <1>4, <1>5

\* A step of the reset that does no more than note errors keeps the invariant, if
\* what the driver takes for granted where the step leads is so.
LEMMA Stepped ==
  ASSUME IInv, NEW from \in InitSteps, NEW to \in (InitSteps \ {"reset"}) \cup {"idle"},
         NEW cmd \in Commands, NEW arg \in Nat, NEW o, Step(from, to, cmd, arg, o),
         NoteError(o) \/ NoteDoneError(o), UNCHANGED v2_card,
         pc' = to => PictureInv'
  PROVE  IInv'
  <1>1. /\ pc \in InitSteps
        /\ (pc' = to /\ attempt' = attempt) \/ AttemptFails
        /\ UNCHANGED <<request, transfer>> /\ faults' \in 0 .. MaxFaults /\ card' \in CardSet
        /\ LastError(o.end) \in Errors
    BY StepFacts
  <1>2. TypeOK /\ v2_card' \in BOOLEAN
    BY DEF IInv, TypeOK
  <1>3. device' \in DeviceSet
    BY <1>1, <1>2, Noted
  <1> QED
    BY <1>1, <1>2, <1>3, Reset

\* Every step of the reset keeps the invariant.
LEMMA InitStepIInv == IInv /\ InitStep => IInv'
  <1> SUFFICES ASSUME IInv, InitStep PROVE IInv'
    OBVIOUS
  <1> USE DEF Commands, InitSteps
  <1>0. TypeOK /\ card \in CardSet /\ device \in DeviceSet /\ v2_card \in BOOLEAN /\ device.rca \in Nat
        /\ faults \in 0 .. MaxFaults
    <2>1. TypeOK /\ card \in CardSet /\ device \in DeviceSet /\ v2_card \in BOOLEAN
          /\ faults \in 0 .. MaxFaults
      BY DEF IInv, TypeOK, CardSet, DeviceSet
    <2> QED
      BY <2>1 DEF DeviceSet, Rcas
  <1>1. ASSUME HostReset PROVE IInv'
    <2>1. pc = "reset" /\ ((pc' = "go_idle" /\ attempt' = attempt) \/ AttemptFails)
          /\ UNCHANGED <<v2_card, device, card, request, transfer>>
          /\ faults' <= MaxFaults /\ faults' \in {faults, faults + 1}
      BY <1>0, <1>1, EmmcConstants DEF HostReset, Fault
    <2>2. faults' \in 0 .. MaxFaults
      BY <1>0, <2>1, EmmcConstants
    <2>3. pc' = "go_idle" => PictureInv'
      BY DEF PictureInv, ReadSteps
    <2> QED
      BY <1>0, <2>1, <2>2, <2>3, Reset
  <1>2. ASSUME GoIdle PROVE IInv'
    <2>1. PICK o : Step("go_idle", "send_if_cond", "GO_IDLE", 0, o) /\ NoteError(o) /\ UNCHANGED v2_card
      BY <1>2 DEF GoIdle
    <2>2. pc' = "send_if_cond" => PictureInv'
      BY DEF PictureInv, ReadSteps
    <2> QED
      BY <1>0, <2>1, <2>2, Stepped
  <1>3. ASSUME CheckV2Card PROVE IInv'
    <2>1. PICK o \in Outcomes("SEND_IF_COND", 0, FALSE) :
            /\ pc = "send_if_cond" /\ card' = o.card /\ v2_card' \in BOOLEAN /\ pc' = "io_set_op_cond"
            /\ faults' = faults + o.fault /\ faults' <= MaxFaults
            /\ NoteError(o) /\ UNCHANGED <<attempt, request, transfer>>
      BY <1>3 DEF CheckV2Card, Command, Fault
    <2>2. o.fault \in {0, 1} /\ o.card \in CardSet /\ LastError(o.end) \in Errors
      BY <1>0, Exchange
    <2>3. faults' \in 0 .. MaxFaults
      BY <1>0, <2>1, <2>2, EmmcConstants
    <2>4. PictureInv'
      BY <2>1 DEF PictureInv, ReadSteps
    <2> QED
      BY <1>0, <2>1, <2>2, <2>3, <2>4, Noted, Reset
  <1>4. ASSUME CheckUsableCard PROVE IInv'
    <2>1. PICK o \in Outcomes("IO_SET_OP_COND", 0, FALSE), reset_fails \in {0, 1} :
            /\ pc = "io_set_op_cond" /\ card' = o.card
            /\ (pc' = "ocr" /\ attempt' = attempt) \/ AttemptFails
            /\ faults' = faults + (o.fault + reset_fails) /\ faults' <= MaxFaults
            /\ NoteError(o) /\ UNCHANGED <<v2_card, request, transfer>>
      BY <1>4 DEF CheckUsableCard, Fault
    <2>2. o.fault \in {0, 1} /\ o.card \in CardSet /\ LastError(o.end) \in Errors
      BY <1>0, Exchange
    <2>3. faults' \in 0 .. MaxFaults
      BY <1>0, <2>1, <2>2, EmmcConstants
    <2>4. pc' = "ocr" => PictureInv'
      BY <2>1 DEF PictureInv, ReadSteps
    <2> QED
      BY <1>0, <2>1, <2>2, <2>3, <2>4, Noted, Reset
  <1>5. ASSUME CheckOcr PROVE IInv'
    <2>1. PICK o : Step("ocr", "sdhc", "OCR", device.rca, o) /\ NoteError(o) /\ UNCHANGED v2_card
      BY <1>5 DEF CheckOcr
    <2>2. pc' = "sdhc" => PictureInv'
      BY DEF PictureInv, ReadSteps
    <2> QED
      BY <1>0, <2>1, <2>2, Stepped
  <1>6. ASSUME CheckSdhcSupport PROVE IInv'
    <2>1. PICK o :
            /\ Step("sdhc", IF o.card.state = "ready" THEN "cid" ELSE "sdhc", "OCR_START", device.rca, o)
            /\ device' = [device EXCEPT !.last_error = LastError(o.end),
                                        !.sdhc = IF o.end = "ok" /\ o.card.state = "ready"
                                                   THEN o.card.hc ELSE @]
            /\ UNCHANGED v2_card
      BY <1>6 DEF CheckSdhcSupport
    <2> DEFINE to == IF o.card.state = "ready" THEN "cid" ELSE "sdhc"
               s == IF o.end = "ok" /\ o.card.state = "ready" THEN o.card.hc ELSE device.sdhc
    <2>2. to \in (InitSteps \ {"reset"}) \cup {"idle"} /\ (to = "cid" => o.card.state = "ready")
      OBVIOUS
    <2>3. Step("sdhc", to, "OCR_START", device.rca, o) /\ device' = [device EXCEPT !.last_error = LastError(o.end), !.sdhc = s]
      BY <2>1
    <2>4. (o.end = "ok" /\ to = "cid") => s = o.card.hc
      OBVIOUS
    <2>5. o.card \in CardSet => s \in BOOLEAN
      BY <1>0 DEF CardSet, DeviceSet
    <2> HIDE DEF to, s
    <2>6. /\ (pc' = to /\ attempt' = attempt) \/ AttemptFails
          /\ UNCHANGED <<request, transfer>> /\ faults' \in 0 .. MaxFaults
          /\ card' = o.card /\ card' \in CardSet /\ LastError(o.end) \in Errors
          /\ pc = "sdhc" /\ (pc' = to => o.end = "ok")
      BY <1>0, <2>2, <2>3, StepFacts
    <2>7. device' \in DeviceSet /\ device'.sdhc = s
      BY <1>0, <2>3, <2>5, <2>6 DEF DeviceSet
    <2>8. pc' = to => PictureInv'
      <3>1. CASE to = "cid"
        BY <2>4, <2>6, <2>7, <3>1 DEF PictureInv, ReadSteps
      <3>2. CASE to = "sdhc"
        BY <3>2 DEF PictureInv, ReadSteps
      <3> QED
        BY <3>1, <3>2 DEF to
    <2> QED
      BY <1>0, <2>1, <2>2, <2>6, <2>7, <2>8, Reset
  <1>7. ASSUME SendCid PROVE IInv'
    <2>1. PICK o : Step("cid", "relative_addr", "SEND_CID", 0, o) /\ NoteError(o) /\ UNCHANGED v2_card
      BY <1>7 DEF SendCid
    <2>2. /\ pc = "cid" /\ card'.hc = card.hc /\ device'.sdhc = device.sdhc
      <3>1. pc = "cid" /\ card'.hc = card.hc /\ LastError(o.end) \in Errors
        BY <1>0, <2>1, StepFacts
      <3> QED
        BY <1>0, <2>1, <3>1, Noted
    <2>3. pc' = "relative_addr" => PictureInv'
      BY <2>2 DEF IInv, PictureInv, ReadSteps
    <2> QED
      BY <1>0, <2>1, <2>3, Stepped
  <1>8. ASSUME SendRelativeAddr PROVE IInv'
    <2>1. PICK o :
            /\ Step("relative_addr", "select", "RELATIVE_ADDR", 0, o)
            /\ device' = [device EXCEPT !.last_error = LastError(o.end),
                                        !.rca = IF o.end = "ok" THEN o.card.rca ELSE @]
            /\ UNCHANGED v2_card
      BY <1>8 DEF SendRelativeAddr
    <2> DEFINE r == IF o.end = "ok" THEN o.card.rca ELSE device.rca
    <2>0. Step("relative_addr", "select", "RELATIVE_ADDR", 0, o)
      BY <2>1
    <2>2. /\ pc = "relative_addr"
          /\ (pc' = "select" /\ attempt' = attempt) \/ AttemptFails
          /\ UNCHANGED <<request, transfer>> /\ faults' \in 0 .. MaxFaults
          /\ card' = o.card /\ card' \in CardSet /\ card'.hc = card.hc
          /\ LastError(o.end) \in Errors
          /\ (pc' = "select" => o.end = "ok" /\ card' \in Obeyed("RELATIVE_ADDR", 0, v2_card))
      BY <1>0, <2>0, StepFacts
    <2>3. r \in Rcas \cup {0} /\ (o.end = "ok" => r = card'.rca)
      BY <1>0, <2>2 DEF CardSet, DeviceSet
    <2>4. device' = [device EXCEPT !.last_error = LastError(o.end), !.rca = r]
      BY <2>1
    <2> HIDE DEF r
    <2>5. device' \in DeviceSet /\ device'.sdhc = device.sdhc /\ device'.rca = r
      BY <1>0, <2>2, <2>3, <2>4 DEF DeviceSet
    <2>6. pc' = "select" => PictureInv'
      <3> SUFFICES ASSUME pc' = "select" PROVE PictureInv'
        OBVIOUS
      <3>1. PICK q \in Rcas : card' = [card EXCEPT !.state = "stby", !.rca = q]
        BY <2>2 DEF Obeyed
      <3>2. card'.rca # 0
        BY <1>0, <3>1 DEF CardSet, Rcas
      <3> QED
        BY <2>2, <2>3, <2>5, <3>2 DEF IInv, PictureInv, ReadSteps
    <2> QED
      BY <1>0, <2>1, <2>2, <2>5, <2>6, Reset
  <1>9. ASSUME SelectCard PROVE IInv'
    <2> DEFINE to == IF device.sdhc THEN "scr" ELSE "block_len"
    <2>1. PICK o : Step("select", to, "SELECT", device.rca, o) /\ NoteDoneError(o) /\ UNCHANGED v2_card
      BY <1>9 DEF SelectCard
    <2>2. to \in {"scr", "block_len"}
      OBVIOUS
    <2> HIDE DEF to
    <2>3. /\ pc = "select" /\ card'.hc = card.hc /\ device'.sdhc = device.sdhc /\ device'.rca = device.rca
          /\ (pc' = to => card' \in Obeyed("SELECT", device.rca, v2_card))
      <3>1. /\ pc = "select" /\ card'.hc = card.hc /\ LastError(o.end) \in Errors
            /\ (pc' = to => card' \in Obeyed("SELECT", device.rca, v2_card))
        BY <1>0, <2>1, <2>2, StepFacts
      <3> QED
        BY <1>0, <2>1, <3>1, Noted
    <2>4. pc' = to => card'.rca = card.rca
      BY <1>0, <2>3 DEF Obeyed, CardSet
    <2>5. pc' = to => PictureInv'
      BY <2>2, <2>3, <2>4 DEF IInv, PictureInv, ReadSteps
    <2> QED
      BY <1>0, <2>1, <2>2, <2>5, Stepped
  <1>10. ASSUME SetBlockLen PROVE IInv'
    <2>1. PICK o : Step("block_len", "scr", "SET_BLOCK_LEN", 0, o) /\ NoteError(o) /\ UNCHANGED v2_card
      BY <1>10 DEF SetBlockLen
    <2>2. /\ pc = "block_len" /\ device'.sdhc = device.sdhc /\ device'.rca = device.rca
          /\ (pc' = "scr" => card' \in Obeyed("SET_BLOCK_LEN", 0, v2_card))
      <3>1. /\ pc = "block_len" /\ LastError(o.end) \in Errors
            /\ (pc' = "scr" => card' \in Obeyed("SET_BLOCK_LEN", 0, v2_card))
        BY <1>0, <2>1, StepFacts
      <3> QED
        BY <1>0, <2>1, <3>1, Noted
    <2>3. pc' = "scr" => card' = card
      BY <2>2 DEF Obeyed
    <2>4. pc' = "scr" => PictureInv'
      BY <2>2, <2>3 DEF IInv, PictureInv, ReadSteps
    <2> QED
      BY <1>0, <2>1, <2>4, Stepped
  <1>11. ASSUME SendScr PROVE IInv'
    <2>1. PICK o : Step("scr", "idle", "SEND_SCR", device.rca, o) /\ NoteDoneError(o) /\ UNCHANGED v2_card
      BY <1>11 DEF SendScr
    <2>2. /\ pc = "scr" /\ device'.sdhc = device.sdhc /\ device'.rca = device.rca
          /\ (pc' = "idle" => Accepts("SEND_SCR", device.rca) /\ card' \in Obeyed("SEND_SCR", device.rca, v2_card))
      <3>1. /\ pc = "scr" /\ LastError(o.end) \in Errors
            /\ (pc' = "idle" => Accepts("SEND_SCR", device.rca) /\ card' \in Obeyed("SEND_SCR", device.rca, v2_card))
        BY <1>0, <2>1, StepFacts
      <3> QED
        BY <1>0, <2>1, <3>1, Noted
    <2>3. pc' = "idle" => card' = card /\ card.state = "tran"
      BY <2>2 DEF Obeyed, Accepts
    <2>4. pc' = "idle" => PictureInv'
      BY <2>2, <2>3 DEF IInv, PictureInv, ReadSteps
    <2> QED
      BY <1>0, <2>1, <2>4, Stepped
  <1> QED
    BY <1>1, <1>2, <1>3, <1>4, <1>5, <1>6, <1>7, <1>8, <1>9, <1>10, <1>11 DEF InitStep

\* A failed try of a read: the command once more, or the panic.
LEMMA Retried ==
  ASSUME TypeOK, pc \in ReadSteps, retry_count < MaxRetries, RetryOrGiveUp
  PROVE  retry_count' \in 0 .. MaxRetries /\ pc' \in {"command", "dead"}
         /\ (pc' = "command" => retry_count' < MaxRetries)
  <1>1. retry_count \in 0 .. MaxRetries
    BY DEF TypeOK
  <1> QED
    BY <1>1, EmmcConstants DEF RetryOrGiveUp

\* A read command leaves the card its address, and one that is obeyed sends from
\* the sector the driver means.
LEMMA ReadFrom ==
  ASSUME IInv, pc = "command", NEW o, Command(ReadCommand, Address, FALSE, o)
  PROVE  o.card.rca = card.rca /\ (o.end = "ok" => o.card.pos = lba)
  <1>1. TypeOK /\ card \in CardSet /\ lba \in Nat /\ device.sdhc = card.hc
    BY EmmcConstants DEF IInv, TypeOK, CardSet, PictureInv, ReadSteps
  <1>2. ReadCommand \in {"READ", "READ_MULTIPLE"} /\ ReadCommand \in Commands
    BY DEF ReadCommand, Commands
  <1>3. Address = (IF card.hc THEN lba ELSE lba * 512) /\ Address \in Nat
    BY <1>1 DEF Address
  <1>4. o \in Outcomes(ReadCommand, Address, FALSE)
    BY DEF Command
  <1>5. /\ o.card \in Obeyed(ReadCommand, Address, FALSE) \cup {card}
        /\ o.end = "ok" => o.card \in Obeyed(ReadCommand, Address, FALSE)
    <2> DEFINE cmd == ReadCommand
               adr == Address
    <2>1. TypeOK /\ cmd \in Commands /\ adr \in Nat /\ FALSE \in BOOLEAN /\ o \in Outcomes(cmd, adr, FALSE)
      BY <1>1, <1>2, <1>3, <1>4
    <2>2. /\ o.card \in Obeyed(cmd, adr, FALSE) \cup {card}
          /\ o.end = "ok" => o.card \in Obeyed(cmd, adr, FALSE)
      <3> HIDE DEF cmd, adr
      <3> QED
        BY <2>1, Exchange
    <2> QED
      BY <2>2
  <1> DEFINE p == IF card.hc THEN Address ELSE Address \div 512
  <1>6. Obeyed(ReadCommand, Address, FALSE) = {[card EXCEPT !.state = "data", !.pos = p]}
    BY <1>2 DEF Obeyed
  <1>7. p = lba
    BY <1>1, <1>3
  <1> HIDE DEF p
  <1> QED
    BY <1>1, <1>5, <1>6, <1>7 DEF CardSet

\* Every step of a read keeps the invariant, if the controller calls a transfer
\* complete only when it is.
LEMMA ReadStepIInv ==
  ASSUME IInv, DoneAfterTimeout = FALSE, ReadStep \/ LoseBlock
  PROVE  IInv'
  <1> USE DEF ReadSteps, InitSteps
  <1>0. TypeOK /\ card \in CardSet /\ device \in DeviceSet /\ faults \in 0 .. MaxFaults /\ lba \in Nat
        /\ nsec \in 0 .. (MaxXfer + 1) /\ block \in 0 .. MaxXfer /\ MaxXfer \in Nat
        /\ MaxRetries \in Nat /\ MaxFaults \in Nat /\ retry_count \in 0 .. MaxRetries
        /\ buffer \in [0 .. MaxXfer -> Nat \cup {NoSector}]
    BY EmmcConstants DEF IInv, TypeOK, CardSet, DeviceSet
  <1>00. CountInv /\ PictureInv /\ TransferInv /\ ReadIsWhole
    BY DEF IInv
  <1>1. ASSUME IssueRead PROVE IInv'
    <2>1. PICK o : /\ Command(ReadCommand, Address, FALSE, o) /\ NoteError(o)
                   /\ \/ o.end = "ok" /\ pc' = "transfer" /\ block' = 0 /\ retry_count' = retry_count
                      \/ RetryOrGiveUp /\ block' = block
                   /\ pc = "command" /\ nsec <= MaxXfer
                   /\ UNCHANGED <<attempt, v2_card, request, buffer, data_err>>
      BY <1>1 DEF IssueRead
    <2>2. ReadCommand \in Commands /\ Address \in Nat
      BY <1>0 DEF ReadCommand, Commands, Address
    <2>3. o \in Outcomes(ReadCommand, Address, FALSE) /\ faults' = faults + o.fault
          /\ faults' <= MaxFaults /\ card' = o.card
      BY <2>1 DEF Command, Fault
    <2>4. o.fault \in {0, 1} /\ o.card \in CardSet /\ o.card.hc = card.hc /\ LastError(o.end) \in Errors
      BY <1>0, <2>2, <2>3, Exchange
    <2>5. device' \in DeviceSet /\ device'.rca = device.rca /\ device'.sdhc = device.sdhc
      BY <1>0, <2>1, <2>4, Noted
    <2>6. faults' \in 0 .. MaxFaults
      BY <1>0, <2>3, <2>4
    <2>7. UNCHANGED <<attempt, v2_card, lba, nsec, buffer, data_err>>
      BY <2>1 DEF request
    <2>10. o.card.rca = card.rca /\ (o.end = "ok" => o.card.pos = lba)
      BY <2>1, ReadFrom
    <2>8. CASE o.end = "ok" /\ pc' = "transfer" /\ block' = 0 /\ retry_count' = retry_count
      <3>1. card'.pos = lba /\ card'.rca = card.rca
        BY <2>1, <2>3, <2>8, <2>10
      <3>2. TypeOK'
        BY <1>0, <2>3, <2>4, <2>5, <2>6, <2>7, <2>8 DEF TypeOK, CardSet, DeviceSet
      <3>3. CountInv' /\ PictureInv'
        BY <1>00, <2>1, <2>3, <2>4, <2>5, <2>7, <2>8, <3>1 DEF CountInv, PictureInv
      <3>4. TransferInv' /\ ReadIsWhole'
        BY <1>0, <2>1, <2>7, <2>8, <3>1 DEF TransferInv, ReadIsWhole
      <3> QED
        BY <3>2, <3>3, <3>4 DEF IInv
    <2>9. CASE RetryOrGiveUp /\ block' = block
      <3>1. retry_count' \in 0 .. MaxRetries /\ pc' \in {"command", "dead"}
            /\ (pc' = "command" => retry_count' < MaxRetries)
        BY <1>0, <1>00, <2>1, <2>9, Retried DEF CountInv
      <3>2. TypeOK'
        BY <1>0, <2>3, <2>4, <2>5, <2>6, <2>7, <2>9, <3>1 DEF TypeOK, CardSet, DeviceSet
      <3>3. CountInv' /\ PictureInv'
        BY <1>00, <2>1, <2>3, <2>4, <2>5, <2>10, <3>1 DEF CountInv, PictureInv
      <3>4. TransferInv' /\ ReadIsWhole'
        BY <3>1 DEF TransferInv, ReadIsWhole
      <3> QED
        BY <3>2, <3>3, <3>4 DEF IInv
    <2> QED
      BY <2>1, <2>8, <2>9
  <1>2. ASSUME RefuseRead PROVE IInv'
    <2>1. pc = "command" /\ RetryOrGiveUp
          /\ UNCHANGED <<attempt, v2_card, device, card, lba, nsec, block, buffer, data_err, faults>>
      BY <1>2 DEF RefuseRead, request
    <2>2. retry_count' \in 0 .. MaxRetries /\ pc' \in {"command", "dead"}
          /\ (pc' = "command" => retry_count' < MaxRetries)
      BY <1>0, <1>00, <2>1, Retried DEF CountInv
    <2>3. TypeOK'
      BY <1>0, <2>1, <2>2 DEF TypeOK
    <2>4. CountInv' /\ PictureInv'
      BY <1>00, <2>1, <2>2 DEF CountInv, PictureInv
    <2>5. TransferInv' /\ ReadIsWhole'
      BY <2>2 DEF TransferInv, ReadIsWhole
    <2> QED
      BY <2>3, <2>4, <2>5 DEF IInv
  <1>3. ASSUME ReadBlock PROVE IInv'
    <2>1. /\ pc = "transfer" /\ block < nsec /\ faults' = faults
          /\ buffer' = [buffer EXCEPT ![block] = card.pos + block] /\ block' = block + 1
          /\ UNCHANGED <<pc, attempt, v2_card, device, card, lba, nsec, retry_count, data_err>>
      BY <1>0, <1>3 DEF ReadBlock, Fault, request
    <2>2. nsec <= MaxXfer /\ card.pos = lba /\ \A i \in 0 .. (block - 1) : buffer[i] = lba + i
      BY <1>00, <2>1 DEF TransferInv
    <2>3. buffer' \in [0 .. MaxXfer -> Nat \cup {NoSector}] /\ block' \in 0 .. MaxXfer
      BY <1>0, <2>1, <2>2
    <2>4. \A i \in 0 .. (block' - 1) : buffer'[i] = lba + i
      BY <1>0, <2>1, <2>2
    <2>5. TypeOK'
      BY <1>0, <2>1, <2>3 DEF TypeOK
    <2>6. CountInv' /\ PictureInv' /\ ReadIsWhole'
      BY <1>00, <2>1 DEF CountInv, PictureInv, ReadIsWhole
    <2>7. TransferInv'
      BY <1>0, <2>1, <2>2, <2>4 DEF TransferInv
    <2> QED
      BY <2>5, <2>6, <2>7 DEF IInv
  <1>4. ASSUME LoseBlock PROVE IInv'
    <2>1. PICK e \in {"none", "dto", "other"} :
            /\ pc = "transfer" /\ pc' = "done" /\ faults' = faults + 1 /\ faults' <= MaxFaults
            /\ data_err' = e /\ device' = [device EXCEPT !.last_error = e]
            /\ UNCHANGED <<attempt, v2_card, card, lba, nsec, retry_count, block, buffer>>
      BY <1>4 DEF LoseBlock, Fault, request
    <2>2. device' \in DeviceSet /\ device'.rca = device.rca /\ device'.sdhc = device.sdhc
      BY <1>0, <2>1 DEF DeviceSet, Errors
    <2>3. faults' \in 0 .. MaxFaults /\ data_err' \in Errors
      BY <1>0, <2>1 DEF Errors
    <2>4. TypeOK'
      BY <1>0, <2>1, <2>2, <2>3 DEF TypeOK, DeviceSet
    <2>5. CountInv' /\ PictureInv' /\ ReadIsWhole'
      BY <1>00, <2>1, <2>2 DEF CountInv, PictureInv, ReadIsWhole
    <2>6. TransferInv'
      BY <1>00, <2>1 DEF TransferInv
    <2> QED
      BY <2>4, <2>5, <2>6 DEF IInv
  <1>5. ASSUME TransferEnds PROVE IInv'
    <2>1. pc = "transfer" /\ pc' = "done"
          /\ UNCHANGED <<attempt, v2_card, device, card, lba, nsec, retry_count, block, buffer, data_err, faults>>
      BY <1>5 DEF TransferEnds, request, transfer
    <2>2. TypeOK'
      BY <1>0, <2>1 DEF TypeOK
    <2>3. CountInv' /\ PictureInv' /\ ReadIsWhole' /\ TransferInv'
      BY <1>00, <2>1 DEF CountInv, PictureInv, ReadIsWhole, TransferInv
    <2> QED
      BY <2>2, <2>3 DEF IInv
  <1>6. ASSUME AwaitDone PROVE IInv'
    <2>1. PICK f \in DoneFlags :
            /\ pc = "done" /\ faults' = faults + f.fault /\ faults' <= MaxFaults
            /\ \/ f.done /\ pc' = "idle" /\ UNCHANGED <<device, retry_count>>
               \/ RetryOrGiveUp /\ device' = [device EXCEPT !.last_error = f.err]
            /\ card' = [card EXCEPT !.state = IF block = nsec \/ nsec = 1 THEN "tran" ELSE "data"]
            /\ data_err' = "none" /\ UNCHANGED <<attempt, v2_card, lba, nsec, block, buffer>>
      BY <1>6 DEF AwaitDone, Fault, request
    <2>2. f.fault \in {0, 1} /\ f.err \in Errors /\ (f.done => block = nsec)
      <3>1. data_err \in Errors
        BY <1>0 DEF TypeOK
      <3>2. CASE block = nsec
        <4>1. \/ f = [done |-> TRUE, err |-> "none", fault |-> 0]
              \/ f \in [done : {TRUE}, err : {"dto", "other"}, fault : {1}]
              \/ f \in [done : {FALSE}, err : Errors \ {"cto"}, fault : {1}]
          BY <3>2 DEF DoneFlags
        <4>2. f.fault \in {0, 1} /\ f.err \in Errors
          <5>1. CASE f = [done |-> TRUE, err |-> "none", fault |-> 0]
            BY <5>1 DEF Errors
          <5>2. CASE f \in [done : {TRUE}, err : {"dto", "other"}, fault : {1}]
            BY <5>2 DEF Errors
          <5>3. CASE f \in [done : {FALSE}, err : Errors \ {"cto"}, fault : {1}]
            BY <5>3
          <5> QED
            BY <4>1, <5>1, <5>2, <5>3
        <4> QED
          BY <3>2, <4>2
      <3>3. CASE block # nsec
        <4>1. f = [done |-> data_err = "dto" /\ DoneAfterTimeout, err |-> data_err, fault |-> 0]
          BY <3>3 DEF DoneFlags
        <4> QED
          BY <3>1, <4>1
      <3> QED
        BY <3>2, <3>3
    <2>3. faults' \in 0 .. MaxFaults
      BY <1>0, <2>1, <2>2
    <2> DEFINE st == IF block = nsec \/ nsec = 1 THEN "tran" ELSE "data"
    <2>4. st \in {"tran", "data"} /\ (block = nsec => st = "tran") /\ card' = [card EXCEPT !.state = st]
      BY <2>1
    <2> HIDE DEF st
    <2>5. card' \in CardSet /\ card'.hc = card.hc /\ card'.rca = card.rca
          /\ (block = nsec => card'.state = "tran")
      BY <1>0, <2>4 DEF CardSet, CardStates
    <2>6. data_err' \in Errors
      BY <2>1 DEF Errors
    <2>7. nsec <= MaxXfer /\ \A i \in 0 .. (block - 1) : buffer[i] = lba + i
      BY <1>00, <2>1 DEF TransferInv
    <2>8. CASE f.done /\ pc' = "idle" /\ UNCHANGED <<device, retry_count>>
      <3>1. TypeOK'
        BY <1>0, <2>1, <2>3, <2>5, <2>6, <2>8 DEF TypeOK, CardSet
      <3>2. CountInv' /\ PictureInv'
        BY <1>00, <2>1, <2>2, <2>5, <2>8 DEF CountInv, PictureInv
      <3>3. TransferInv' /\ ReadIsWhole'
        BY <2>1, <2>2, <2>7, <2>8 DEF TransferInv, ReadIsWhole
      <3> QED
        BY <3>1, <3>2, <3>3 DEF IInv
    <2>9. CASE RetryOrGiveUp /\ device' = [device EXCEPT !.last_error = f.err]
      <3>1. retry_count' \in 0 .. MaxRetries /\ pc' \in {"command", "dead"}
            /\ (pc' = "command" => retry_count' < MaxRetries)
        BY <1>0, <1>00, <2>1, <2>9, Retried DEF CountInv
      <3>2. device' \in DeviceSet /\ device'.rca = device.rca /\ device'.sdhc = device.sdhc
        BY <1>0, <2>2, <2>9 DEF DeviceSet
      <3>3. TypeOK'
        BY <1>0, <2>1, <2>3, <2>5, <2>6, <3>1, <3>2 DEF TypeOK, CardSet, DeviceSet
      <3>4. CountInv' /\ PictureInv'
        BY <1>00, <2>1, <2>5, <3>1, <3>2 DEF CountInv, PictureInv
      <3>5. TransferInv' /\ ReadIsWhole'
        BY <3>1 DEF TransferInv, ReadIsWhole
      <3> QED
        BY <3>3, <3>4, <3>5 DEF IInv
    <2> QED
      BY <2>1, <2>8, <2>9
  <1> QED
    BY <1>1, <1>2, <1>3, <1>4, <1>5, <1>6 DEF ReadStep

\* What the program above the driver asks for keeps the invariant.
LEMMA ClientIInv == IInv /\ Client => IInv'
  <1> SUFFICES ASSUME IInv, Client PROVE IInv'
    OBVIOUS
  <1> USE DEF ReadSteps, InitSteps
  <1>0. TypeOK /\ TransferInv /\ MaxXfer \in Nat /\ 0 < Attempts /\ 0 < MaxRetries /\ Attempts \in Nat
        /\ MaxRetries \in Nat /\ device \in DeviceSet
    BY EmmcConstants DEF IInv, TypeOK, DeviceSet
  <1>1. ASSUME StartInit PROVE IInv'
    <2>1. /\ pc = "off" /\ pc' = "reset" /\ attempt' = 0
          /\ device' = [device EXCEPT !.sdhc = FALSE, !.rca = 0]
          /\ UNCHANGED <<v2_card, card, lba, nsec, retry_count, block, buffer, data_err, faults>>
      BY <1>1 DEF StartInit, request, transfer
    <2>2. device' \in DeviceSet
      BY <1>0, <2>1 DEF DeviceSet
    <2>3. TypeOK'
      BY <1>0, <2>1, <2>2 DEF TypeOK, DeviceSet
    <2>4. CountInv' /\ PictureInv' /\ TransferInv' /\ ReadIsWhole'
      BY <1>0, <2>1 DEF CountInv, PictureInv, TransferInv, ReadIsWhole
    <2> QED
      BY <2>3, <2>4 DEF IInv
  <1>2. ASSUME NEW l \in Lbas, NEW n \in 0 .. (MaxXfer + 1), BeginRead(l, n) PROVE IInv'
    <2>1. /\ pc = "idle" /\ lba' = l /\ nsec' = n /\ pc' \in {"dead", "command"}
          /\ retry_count' = 0 /\ block' = 0 /\ buffer' = Fresh /\ data_err' = "none"
          /\ UNCHANGED <<attempt, v2_card, device, card, faults>>
      BY <1>2 DEF BeginRead
    <2>2. buffer' \in [0 .. MaxXfer -> Nat \cup {NoSector}] /\ 0 \in 0 .. MaxXfer /\ 0 \in 0 .. MaxRetries
      BY <1>0, <2>1 DEF Fresh
    <2>3. TypeOK'
      BY <1>0, <2>1, <2>2 DEF TypeOK, Errors
    <2>4. CountInv' /\ PictureInv' /\ TransferInv' /\ ReadIsWhole'
      BY <1>0, <2>1 DEF IInv, CountInv, PictureInv, TransferInv, ReadIsWhole
    <2> QED
      BY <2>3, <2>4 DEF IInv
  <1> QED
    BY <1>1, <1>2 DEF Client

\* Every step keeps the invariant.
LEMMA InductiveStep ==
  ASSUME DoneAfterTimeout = FALSE, IInv, [Next]_vars
  PROVE  IInv'
  <1>1. CASE Next
    BY <1>1, ClientIInv, InitStepIInv, ReadStepIInv DEF Next
  <1>2. CASE UNCHANGED vars
    <2>1. UNCHANGED <<pc, attempt, v2_card, device, card, lba, nsec, retry_count, block, buffer,
                      data_err, faults>>
      BY <1>2 DEF vars, request, transfer
    <2>2. TypeOK'
      BY <2>1 DEF IInv, TypeOK
    <2>3. CountInv' /\ PictureInv' /\ TransferInv' /\ ReadIsWhole'
      BY <2>1 DEF IInv, CountInv, PictureInv, TransferInv, ReadIsWhole
    <2> QED
      BY <2>2, <2>3 DEF IInv
  <1> QED
    BY <1>1, <1>2

\* Every variable keeps its type: no count passes its limit and no block is
\* stored past the end of the buffer (emmc_init, do_data_command, do_data_transfer).
THEOREM TypeCorrect ==
  ASSUME DoneAfterTimeout = FALSE
  PROVE  Spec => []TypeOK
  <1>1. Init => IInv
    BY InitIInv
  <1>2. IInv /\ [Next]_vars => IInv'
    BY InductiveStep
  <1>3. IInv => TypeOK
    BY DEF IInv
  <1> QED
    BY <1>1, <1>2, <1>3, PTL DEF Spec

\* A read that succeeds has filled the buffer with the sectors asked for, in
\* order, whatever failed and was retried (pi_sd_read, do_data_command), provided
\* that the controller never reports a transfer complete that it has cut short.
THEOREM ReadsAreWhole ==
  ASSUME DoneAfterTimeout = FALSE
  PROVE  Spec => []ReadIsWhole
  <1>1. Init => IInv
    BY InitIInv
  <1>2. IInv /\ [Next]_vars => IInv'
    BY InductiveStep
  <1>3. IInv => ReadIsWhole
    BY DEF IInv
  <1> QED
    BY <1>1, <1>2, <1>3, PTL DEF Spec

\* When emmc_init has succeeded, and after every read, the driver has the card's
\* address and kind right and the card waits for the next transfer.
THEOREM InitIsReady ==
  ASSUME DoneAfterTimeout = FALSE
  PROVE  Spec => []InitMeansReady
  <1>1. Init => IInv
    BY InitIInv
  <1>2. IInv /\ [Next]_vars => IInv'
    BY InductiveStep
  <1>3. IInv => InitMeansReady
    BY DEF IInv, PictureInv, InitMeansReady
  <1> QED
    BY <1>1, <1>2, <1>3, PTL DEF Spec
=============================================================================
