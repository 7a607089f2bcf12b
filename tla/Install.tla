------------------------------- MODULE Install ------------------------------
(***************************************************************************)
(* The whole of a run from the host: pi3-install.c finds and opens the     *)
(* tty, boots the program (Boot), and echoes its output until it reports   *)
(* that it is done; on the Pi the program that was booted starts, sets up  *)
(* its UART, prints through the UART's FIFO and reboots.                   *)
(*                                                                         *)
(* What the program prints follows the last byte of the bootloader on the  *)
(* same line; it is a stream of its own here, console, that the host reads *)
(* once simple_boot has returned.                                          *)
(***************************************************************************)
EXTENDS Boot

CONSTANTS
  Names,       \* the names in /dev, in alphabetical order
  Serial,      \* those with one of ttyusb_prefixes
  Times,       \* modification times
  MaxChanges,  \* times a tty is plugged in or out
  Outputs,     \* what the program may print
  exit_string, \* "DONE!!!\n", with fewer letters
  Unprintable, \* characters that remove_nonprint replaces
  FifoLen      \* characters the UART's FIFO holds

\* The characters there are, "SP" the space.
Chars ==
  (UNION {{o[i] : i \in DOMAIN o} : o \in Outputs})
    \cup {exit_string[i] : i \in DOMAIN exit_string} \cup {"SP"}

ASSUME InstallConstants ==
  /\ exit_string \in Seq(Chars) /\ Len(exit_string) > 0
  /\ Outputs \subseteq Seq(Chars)
  /\ FifoLen \in Nat \ {0}
  /\ MaxChanges \in Nat

maxattempts == 5

VARIABLES
  inst_pc,   \* where pi3-install is
  args,      \* its command line
  dir,       \* /dev: the ttys that are there, with their times
  changes,   \* how often dir has changed
  namelist,  \* what scandir returned and the loop has not looked at
  dev,       \* selected_device or the name given, and its time
  attempts,  \* of opening the tty
  echoed,    \* what it has printed of the program's output
  done_pos,  \* pi_done's static pos
  run_pc,    \* where the program is
  inits,     \* calls of uart_init that are left to make
  text,      \* what the program prints, up to its reboot
  out,       \* what it has not put into the UART yet
  fsel,      \* the functions of the UART's pins
  enabled,   \* UARTEN
  tx, shift, \* the FIFO, and the character that is being transmitted
  console    \* the program's characters on their way to the host

scan_vars == <<dir, changes, namelist, dev, attempts>>
echo_vars == <<echoed, done_pos>>
host_side == <<inst_pc, args, scan_vars, echo_vars>>
uart_vars == <<fsel, enabled, tx, shift>>
pi_side == <<run_pc, inits, text, out, uart_vars>>
install_vars == <<host_side, pi_side, console>>
all_vars == <<vars, install_vars>>

\* No tty, or a name that was never looked up.
NoDev == [name |-> "", mtime |-> 0]

InstallInit ==
  /\ Init
  /\ inst_pc = "options"
  /\ args \in [device : {"last", "first", "none"} \cup Serial, program : BOOLEAN,
               readable : BOOLEAN]
  /\ dir \in {{[name |-> n, mtime |-> t[n]] : n \in DOMAIN t} :
                t \in UNION {[S -> Times] : S \in SUBSET Serial}}
  /\ changes = 0 /\ namelist = <<>> /\ dev = NoDev /\ attempts = 0
  /\ echoed = <<>> /\ done_pos = 0
  /\ run_pc = "bootloader" /\ inits = 0 /\ text = <<>> /\ out = <<>>
  /\ fsel = [pin \in {14, 15} |-> "alt0"] /\ enabled = TRUE
  /\ tx = <<>> /\ shift = <<>> /\ console = <<>>

-----------------------------------------------------------------------------
\* pi3-install up to simple_boot.

Present(n) == \E e \in dir : e.name = n
Mtime(n) == (CHOOSE e \in dir : e.name = n).mtime

Fail == inst_pc' = "failed"

\* Options are parsed in their order; --last and --first look for a tty at once,
\* and so does main if there is no device at the end.
ParseOptions ==
  /\ inst_pc = "options"
  /\ IF args.device \in Serial
       THEN /\ dev' = [name |-> args.device, mtime |-> 0]
            /\ IF args.program THEN inst_pc' = "open" ELSE Fail
       ELSE /\ dev' = dev
            /\ IF args.device = "none" /\ ~args.program THEN Fail ELSE inst_pc' = "scan"
  /\ UNCHANGED <<args, dir, changes, namelist, attempts, echo_vars, pi_side, console, vars>>

\* scandir with filter and alphasort.
filter(n) == n \in Serial

ScanDev ==
  /\ inst_pc = "scan"
  /\ namelist' = SelectSeq(Names, LAMBDA n : filter(n) /\ Present(n))
  /\ IF namelist' = <<>> THEN Fail ELSE inst_pc' = "stat"
  /\ UNCHANGED <<args, dir, changes, dev, attempts, echo_vars, pi_side, console, vars>>

Before(t) == IF args.device = "first" THEN t < dev.mtime ELSE t > dev.mtime

\* One turn of the loop of find_ttyusb_last and find_ttyusb_first: the tty may be
\* gone since it was listed.
StatNext ==
  /\ inst_pc = "stat"
  /\ namelist # <<>>
  /\ namelist' = Tail(namelist)
  /\ IF Present(Head(namelist))
       THEN /\ dev' = IF dev = NoDev \/ Before(Mtime(Head(namelist)))
                        THEN [name |-> Head(namelist), mtime |-> Mtime(Head(namelist))]
                        ELSE dev
            /\ inst_pc' = inst_pc
       ELSE dev' = dev /\ Fail
  /\ UNCHANGED <<args, dir, changes, attempts, echo_vars, pi_side, console, vars>>

Selected ==
  /\ inst_pc = "stat"
  /\ namelist = <<>>
  /\ IF args.program THEN inst_pc' = "open" ELSE Fail
  /\ UNCHANGED <<args, scan_vars, echo_vars, pi_side, console, vars>>

\* open_tty, with a second between two attempts.
OpenTty ==
  /\ inst_pc = "open"
  /\ attempts' = attempts + 1
  /\ IF Present(dev.name) THEN inst_pc' = "set_tty"
     ELSE IF attempts' = maxattempts THEN Fail
     ELSE inst_pc' = inst_pc
  /\ UNCHANGED <<args, dir, changes, namelist, dev, echo_vars, pi_side, console, vars>>

\* set_tty_to_8n1 panics if the tty is gone, or is none.
SetTty ==
  /\ inst_pc = "set_tty"
  /\ IF Present(dev.name) THEN inst_pc' = "read_file" ELSE Fail
  /\ UNCHANGED <<args, scan_vars, echo_vars, pi_side, console, vars>>

\* read_file: stat, calloc, open, read.  Of /dev only the tty matters from here on,
\* and its changes are counted anew.
ReadFile ==
  /\ inst_pc = "read_file"
  /\ IF args.readable THEN inst_pc' = "boot" ELSE Fail
  /\ args' = [args EXCEPT !.device = "none"]
  /\ dir' = {e \in dir : e.name = dev.name}
  /\ dev' = [dev EXCEPT !.mtime = 0]
  /\ attempts' = 0 /\ changes' = 0
  /\ UNCHANGED <<namelist, echo_vars, pi_side, console, vars>>

\* A tty appears, with the time of its appearance, or goes.  Not during the boot.
PlugOrUnplug ==
  /\ changes < MaxChanges
  /\ inst_pc \in {"options", "scan", "stat", "open", "set_tty", "stdin", "read_pi"}
  /\ changes' = changes + 1
  /\ \/ \E e \in dir : dir' = dir \ {e}
     \/ \E n \in Serial, t \in Times : ~Present(n) /\ dir' = dir \cup {[name |-> n, mtime |-> t]}
  /\ UNCHANGED <<inst_pc, args, namelist, dev, attempts, echo_vars, pi_side, console, vars>>

\* simple_boot has returned.  With --exec, todo panics.
StartEcho ==
  /\ inst_pc = "boot" /\ host_pc = "done"
  /\ inst_pc' \in {"stdin", "failed"}
  /\ UNCHANGED <<args, scan_vars, echo_vars, pi_side, console, vars>>

-----------------------------------------------------------------------------
\* pi_echo.

\* Nothing within a millisecond or the end of the input, characters, or an error: it
\* passes for a count, for the comparison with 0 is one of unsigned numbers.
read_timeout == {"nothing", "data", "error"}

\* write does not take as much as the error's count says.
write_exact(r) == IF r = "error" THEN Fail ELSE inst_pc' = "read_pi"

\* What the user typed goes to the Pi, where the program does not look at it.
ReadStdin ==
  /\ inst_pc = "stdin"
  /\ \E r \in read_timeout :
       IF r = "nothing" THEN inst_pc' = "read_pi" ELSE write_exact(r)
  /\ UNCHANGED <<args, scan_vars, echo_vars, pi_side, console, vars>>

remove_nonprint(buf) == [i \in DOMAIN buf |-> IF buf[i] \in Unprintable THEN "SP" ELSE buf[i]]

\* pi_done: where it stands after s, or the length of exit_string if it has seen it.
pi_done[pos \in 0 .. Len(exit_string), s \in Seq(Chars)] ==
  IF s = <<>> \/ pos = Len(exit_string) THEN pos
  ELSE IF Head(s) # exit_string[pos + 1] THEN pi_done[0, Tail(s)]
  ELSE pi_done[pos + 1, Tail(s)]

\* Slip: pos is not static.
ScanAfresh(buf) == pi_done[0, buf]

Scan(buf) == pi_done[done_pos, buf]

\* read returns what is there, up to any point of the stream.
ReadPi ==
  /\ inst_pc = "read_pi"
  /\ Present(dev.name) /\ console # <<>>
  /\ \E n \in 1 .. Len(console) :
       LET buf == remove_nonprint(Front(console, n)) IN
         /\ console' = Rest(console, n)
         /\ echoed' = echoed \o buf
         /\ done_pos' = Scan(buf)
         /\ inst_pc' = IF done_pos' = Len(exit_string) THEN "exited" ELSE "stdin"
  /\ UNCHANGED <<args, scan_vars, pi_side, vars>>

\* can_read_timeout runs out.
NothingToRead ==
  /\ inst_pc = "read_pi"
  /\ Present(dev.name) /\ console = <<>>
  /\ inst_pc' = "stdin"
  /\ UNCHANGED <<args, scan_vars, echo_vars, pi_side, console, vars>>

\* read returns nothing and tty_gone agrees, or it fails.
TtyGone ==
  /\ inst_pc = "read_pi"
  /\ ~Present(dev.name)
  /\ inst_pc' \in {"exited", "failed"}
  /\ UNCHANGED <<args, scan_vars, echo_vars, pi_side, console, vars>>

InstallStep ==
  \/ ParseOptions \/ ScanDev \/ StatNext \/ Selected \/ OpenTty \/ SetTty \/ ReadFile
  \/ StartEcho \/ ReadStdin \/ ReadPi \/ NothingToRead \/ TtyGone

-----------------------------------------------------------------------------
\* The program on the Pi.

\* FR_BUSY, FR_TXFF, and uart_tx_is_empty.
Busy == tx # <<>> \/ shift # <<>>
TxFull == Len(tx) = FifoLen

\* Slip: the character that has left the FIFO is forgotten.
uart_tx_is_emptyFifo == tx = <<>>

uart_tx_is_empty == tx = <<>> /\ ~Busy

\* It returns when it can.
uart_flush_tx == uart_tx_is_empty

\* uart_init is called by _cstart, after it has cleared the bss, and by notmain,
\* before anything is printed.
InitCalls == 2

\* The bootloader's notmain has branched to what it loaded: start.S.  The program is
\* linked for ARMBASE; what it does at another address is not followed.
EnterProgram ==
  /\ pi_pc = "jumped" /\ run_pc = "bootloader"
  /\ addr = "armbase"
  /\ run_pc' = "init"
  /\ inits' = InitCalls
  /\ \E o \in Outputs : text' = o \o exit_string
  /\ UNCHANGED <<host_side, out, uart_vars, console, vars>>

gpio_set_function(fs, pin, func) == [fs EXCEPT ![pin] = func]

\* uart_init as far as CR = 0.
DisableUart ==
  /\ run_pc = "init" /\ inits > 0
  /\ fsel' = gpio_set_function(gpio_set_function(fsel, 14, "alt0"), 15, "alt0")
  /\ enabled' = FALSE
  /\ run_pc' = "busy"
  /\ UNCHANGED <<host_side, inits, text, out, tx, shift, console, vars>>

\* The rest, once what was being transmitted is out: FR_BUSY stays set as long as
\* the FIFO, which does not move now, holds anything.
EnableUart ==
  /\ run_pc = "busy"
  /\ ~Busy
  /\ enabled' = TRUE
  /\ inits' = inits - 1
  /\ run_pc' = "init"
  /\ UNCHANGED <<host_side, text, out, fsel, tx, shift, console, vars>>

\* The program prints its output, and clean_reboot the exit string.
StartPrinting ==
  /\ run_pc = "init" /\ inits = 0
  /\ out' = text
  /\ run_pc' = "put"
  /\ UNCHANGED <<host_side, inits, text, uart_vars, console, vars>>

\* The UART drops what does not fit.
Stored(c) == IF TxFull THEN tx ELSE Append(tx, c)

uart_put8(c) == ~TxFull /\ tx' = Stored(c)

rpi_putchar(c) == uart_put8(c)

\* One turn of putk's loop.
PutChar ==
  /\ run_pc = "put" /\ out # <<>>
  /\ rpi_putchar(Head(out))
  /\ out' = Tail(out)
  /\ UNCHANGED <<host_side, run_pc, inits, text, fsel, enabled, shift, console, vars>>

\* uart_flush_tx twice, in clean_reboot and in rpi_reboot, and the watchdog: what
\* the UART still holds is gone.  The delays are left out.
RebootProgram ==
  /\ run_pc = "put" /\ out = <<>>
  /\ uart_flush_tx
  /\ run_pc' = "off"
  /\ tx' = <<>> /\ shift' = <<>>
  /\ UNCHANGED <<host_side, inits, text, out, fsel, enabled, console, vars>>

ProgramStep ==
  EnterProgram \/ DisableUart \/ EnableUart \/ StartPrinting \/ PutChar \/ RebootProgram

\* The UART: the FIFO moves while the UART is enabled; a character that is being
\* transmitted is transmitted to its end.
LoadShift ==
  /\ enabled /\ tx # <<>> /\ shift = <<>>
  /\ shift' = <<Head(tx)>>
  /\ tx' = Tail(tx)
  /\ UNCHANGED <<host_side, run_pc, inits, text, out, fsel, enabled, console, vars>>

Transmit ==
  /\ shift # <<>> /\ fsel[14] = "alt0"
  /\ console' = console \o shift
  /\ shift' = <<>>
  /\ UNCHANGED <<host_side, run_pc, inits, text, out, fsel, enabled, tx, vars>>

UartStep == LoadShift \/ Transmit

-----------------------------------------------------------------------------
\* Boot, from the moment simple_boot is called: until then the Pi is in the middle
\* of the messages that Init chooses from.
HostInBoot == inst_pc = "boot" /\ (HostStep \/ HostTimeout) /\ UNCHANGED install_vars

PiRuns == inst_pc \in {"boot", "stdin", "read_pi", "exited"} \/ host_pc = "done"

PiInBoot == PiRuns /\ PiStep /\ UNCHANGED install_vars
LineInBoot == PiRuns /\ (Ask(TRUE) \/ Fault) /\ UNCHANGED install_vars

InstallNext ==
  \/ InstallStep \/ PlugOrUnplug
  \/ HostInBoot \/ PiInBoot \/ LineInBoot
  \/ ProgramStep \/ UartStep

InstallSpec == InstallInit /\ [][InstallNext]_all_vars

\* Every program runs, and the UART transmits.  The commands of the user, the ttys
\* and the line are free.
InstallFairSpec ==
  /\ InstallSpec
  /\ WF_all_vars(InstallStep) /\ WF_all_vars(HostInBoot) /\ WF_all_vars(PiInBoot)
  /\ WF_all_vars(ProgramStep) /\ WF_all_vars(UartStep)

-----------------------------------------------------------------------------
\* What must hold.

\* Until the program reboots and after, every character that it printed is printed
\* by the host, or is on its way there in the order it was put: uart_init is not
\* called while there is output, uart_put8 waits for room, and the reboot for the
\* last bit (uart.c, reboot.c, pi-echo.c).
Whole == echoed \o remove_nonprint(console \o shift \o tx \o out)
NoCharLost == run_pc \in {"put", "off"} => Whole = remove_nonprint(text)

\* A start of the exit string that the program's own output ends with.
Swallowed ==
  \E k \in 1 .. Len(exit_string) - 1 :
    LET own == Len(text) - Len(exit_string) IN
      k <= own /\ SubSeq(text, own - k + 1, own) = Front(exit_string, k)

\* "print out a special message so bootloader exits" (clean-reboot.c): the host ends
\* once the program has, however read cuts the stream, unless the program's output
\* runs into the exit string, or the program does not run where it was linked for.
HostExits ==
  inst_pc = "stdin" ~>
    \/ inst_pc \in {"exited", "failed"}
    \/ Swallowed
    \/ addr # "armbase"

\* Boot's BootSettles, once simple_boot has been called.
InstallSettles ==
  [](faults = 0 /\ late = 0) /\ <>(inst_pc = "boot") =>
    <>IF fits THEN host_pc = "done" /\ run_pc = "off"
              ELSE host_pc = "dead" /\ pi_pc # "jumped"

\* Seen from the two boot programs, it is Boot.
ImplementsBoot == Spec
=============================================================================
