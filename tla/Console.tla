------------------------------ MODULE Console -------------------------------
(***************************************************************************)
(* The console of the hypervisor: log records and println! of all CPUs     *)
(* through one spin lock to one serial port (src/src/logging.rs,           *)
(* arch/x86_64/serial.rs, crates/uart_16550), and what prints out of turn: *)
(* the exception handler (arch/x86_64/exception.rs) and the panic handler  *)
(* (lang.rs), which may run on top of a print.                             *)
(*                                                                         *)
(* A text is a sequence of byte classes: "x" an ASCII character, "LF", "CR"*)
(* and "BS" control characters, "HI" a byte of 128 and above.  stack[c] is *)
(* what CPU c is in and has still to do, the innermost last: calls of      *)
(* putfmt() ("lock", "write"), the return to Linux ("leave") and the loop  *)
(* at the end of the panic handler ("loop").                               *)
(***************************************************************************)
EXTENDS Integers, Sequences, SequencesExt

CONSTANTS
    Cpu,            \* the CPUs
    NoCpu,          \* the lock is free
    Records,        \* what a CPU logs, a level and a text, or prints, with level Off
    Levels,         \* log::max_level(), from the environment of the build
    MaxEvents       \* log calls, ways back to Linux, exceptions and panics in all

ASSUME NoCpuAssumption == NoCpu \notin Cpu

Off == 0
Error == 1
Warn == 2
Info == 3
Trace == 5
ASSUME LevelsAssumption == Levels \subseteq Off..Trace

VARIABLES
    max_level, state, stack, holder, thr, wire, order, events
vars == <<max_level, state, stack, holder, thr, wire, order, events>>

\* ByteConvertor::write_str, a byte at a time.
Convert(b) == IF b = "LF" THEN <<"CR", "LF">> ELSE <<b>>

\* write_char(byte as char): a char above 127 is two bytes in UTF-8.
write_char(b) == IF b = "HI" THEN <<"HI", "HI">> ELSE <<b>>

\* SerialPort::send: a backspace also blanks.
send(b) == IF b = "BS" THEN <<"BS", "x", "BS">> ELSE <<b>>

Each(f(_), text) == FlattenSeq([i \in DOMAIN text |-> f(text[i])])
Bytes(text) == Each(send, Each(write_char, Each(Convert, text)))

-----------------------------------------------------------------------------
Top(c) == stack[c][Len(stack[c])]
SetTop(c, call) == [stack EXCEPT ![c][Len(stack[c])] = call]
Push(c, calls) == stack' = [stack EXCEPT ![c] = @ \o calls]
Pop(c) == stack' = [stack EXCEPT ![c] = Front(@)]
At(c, at) == stack[c] # <<>> /\ Top(c).at = at
InNmi(c) == \E i \in DOMAIN stack[c] : stack[c][i].nmi

\* putfmt() is called: next it takes the lock.
Call(text, nmi) == [at |-> "lock", text |-> text, todo |-> Bytes(text), nmi |-> nmi]
Then(at) == <<[at |-> at, text |-> <<>>, todo |-> <<>>, nmi |-> FALSE]>>

\* The calls of print() that a record leads to: none if it is above the level.
\* println! prints at every level.
Calls(r, nmi) == IF r.level <= max_level THEN <<Call(r.text, nmi)>> ELSE <<>>
Line == <<"x">>
Log(level, nmi) == Calls([level |-> level, text |-> Line], nmi)

\* SimpleLogger::log, reached through a macro of the log crate, or println!.
log(c) ==
    /\ stack[c] = <<>> /\ events < MaxEvents /\ state[c] # "left"
    /\ events' = events + 1
    /\ \E r \in Records : Push(c, Calls(r, FALSE))
    /\ UNCHANGED <<state, holder, thr, wire, order>>

\* Mutant: deactivate_vmm() logs where it prints.
DeactivateLogs == Then("leave") \o Log(Info, FALSE)

\* PerCpu::deactivate_vmm: println!, then the way back to Linux.
Deactivate == Then("leave") \o Log(Off, FALSE)

\* The panic handler, last call first: error! with the panic, try_handle_panic,
\* and if that fails another error! and the loop.
Panic(c) ==
    Then("loop") \o Log(Error, FALSE) \o (IF state[c] = "enabled" THEN Deactivate ELSE <<>>)
                 \o Log(Error, FALSE)

\* A hypercall of Linux ends the hypervisor on the CPU.
deactivate_vmm(c) ==
    /\ stack[c] = <<>> /\ events < MaxEvents /\ state[c] = "enabled"
    /\ events' = events + 1
    /\ Push(c, Deactivate)
    /\ UNCHANGED <<state, holder, thr, wire, order>>

\* Vcpu::exit and return_to_linux; exit may fail.
return_to_linux(c) ==
    /\ At(c, "leave")
    /\ \/ Pop(c) /\ UNCHANGED state
       \/ /\ stack' = [stack EXCEPT ![c] = <<>>]
          /\ state' = [state EXCEPT ![c] = "left"]
    /\ UNCHANGED <<holder, thr, wire, order, events>>

\* exception_handler(): trace! comes first and so is innermost.  For an NMI
\* handle_nmi() warns and returns, a further one being held back until the
\* iretq; a page fault panics; anything else is logged and panics.
exception_handler(c) ==
    /\ state[c] # "left" /\ events < MaxEvents
    /\ events' = events + 1
    /\ \/ ~ InNmi(c) /\ Push(c, Log(Warn, TRUE) \o Log(Trace, TRUE))
       \/ Push(c, Panic(c) \o Log(Trace, FALSE))
       \/ Push(c, Panic(c) \o Log(Error, FALSE) \o Log(Trace, FALSE))
    /\ UNCHANGED <<state, holder, thr, wire, order>>

\* A panic of the code, also one of a formatter or of the expect of putfmt(),
\* with the guard of the lock alive.  Nothing is unwound.
panic(c) ==
    /\ state[c] # "left" /\ events < MaxEvents
    /\ stack[c] = <<>> \/ At(c, "write")
    /\ events' = events + 1
    /\ Push(c, Panic(c))
    /\ UNCHANGED <<state, holder, thr, wire, order>>

\* Mutant: the lock is taken without a look at its holder.
LockAlways(c) ==
    /\ At(c, "lock")
    /\ holder' = c
    /\ stack' = SetTop(c, [Top(c) EXCEPT !.at = "write"])
    /\ order' = Append(order, Top(c).text)
    /\ UNCHANGED <<state, thr, wire, events>>

\* SERIAL1.lock() in putfmt().
Lock(c) ==
    /\ At(c, "lock")
    /\ holder = NoCpu
    /\ holder' = c
    /\ stack' = SetTop(c, [Top(c) EXCEPT !.at = "write"])
    /\ order' = Append(order, Top(c).text)
    /\ UNCHANGED <<state, thr, wire, events>>

\* Mutant: the test of the line status is inverted.
SendWhenFull(c) ==
    /\ At(c, "write") /\ Top(c).todo # <<>>
    /\ thr # <<>>
    /\ thr' = <<Head(Top(c).todo)>>
    /\ stack' = SetTop(c, [Top(c) EXCEPT !.todo = Tail(@)])
    /\ UNCHANGED <<state, holder, wire, order, events>>

\* send(): the next byte is written once OUTPUT_EMPTY is seen.
Send(c) ==
    /\ At(c, "write") /\ Top(c).todo # <<>>
    /\ thr = <<>>
    /\ thr' = <<Head(Top(c).todo)>>
    /\ stack' = SetTop(c, [Top(c) EXCEPT !.todo = Tail(@)])
    /\ UNCHANGED <<state, holder, wire, order, events>>

\* The guard of the lock is dropped at the end of putfmt().
Unlock(c) ==
    /\ At(c, "write") /\ Top(c).todo = <<>>
    /\ holder' = NoCpu
    /\ Pop(c)
    /\ UNCHANGED <<state, thr, wire, order, events>>

\* The UART shifts the byte out.
Transmit ==
    /\ thr # <<>>
    /\ wire' = wire \o thr
    /\ thr' = <<>>
    /\ UNCHANGED <<state, stack, holder, order, events>>

-----------------------------------------------------------------------------
Init ==
    /\ max_level \in Levels
    /\ state \in [Cpu -> {"disabled", "enabled"}]
    /\ stack = [c \in Cpu |-> <<>>]
    /\ holder = NoCpu
    /\ thr = <<>> /\ wire = <<>> /\ order = <<>>
    /\ events = 0

putfmt(c) == Lock(c) \/ Send(c) \/ Unlock(c)

Next == /\ UNCHANGED max_level
        /\ \/ \E c \in Cpu : \/ log(c) \/ deactivate_vmm(c) \/ return_to_linux(c)
                            \/ exception_handler(c) \/ panic(c) \/ putfmt(c)
           \/ Transmit

\* A CPU in putfmt() runs with interrupts off, and the UART shifts out.
Fairness == WF_vars(Transmit /\ UNCHANGED max_level)
            /\ \A c \in Cpu : WF_vars(putfmt(c) /\ UNCHANGED max_level)
Spec == Init /\ [][Next]_vars /\ Fairness

-----------------------------------------------------------------------------
\* What a terminal is to get for a text.
OnTerminal(b) ==
    CASE b = "LF" -> <<"CR", "LF">>
      [] b = "BS" -> <<"BS", "x", "BS">>
      [] b = "HI" -> <<"HI", "HI">>
      [] OTHER -> <<b>>

\* What the holder of the lock has still to write.
Rest == IF holder = NoCpu THEN <<>>
        ELSE LET Writing(f) == f.at = "write"
                 Todo(f) == f.todo
             IN  Each(Todo, SelectSeq(stack[holder], Writing))

\* putfmt() holds the lock for a whole text: the texts come out one after the
\* other, in the order of the lock, complete and with CR LF line ends,
\* whichever CPUs print and wherever they are interrupted.
TextsWhole == Each(OnTerminal, FlattenSeq(order)) = wire \o thr \o Rest

\* A CPU that goes back to Linux does not take the lock with it, even out of a
\* panic in the middle of a print and with logging off: the println! of
\* deactivate_vmm() comes before the return, and on a CPU that holds the lock it
\* never ends.  So whoever holds the lock is in putfmt().
LockNotLeftBehind ==
    holder # NoCpu => \E i \in DOMAIN stack[holder] : stack[holder][i].at = "write"

\* The holder of the lock was hit by an NMI, an exception or a panic before the
\* guard was dropped: it waits for itself or ends in the loop.
Hung(c) == holder = c /\ ~ At(c, "write")

\* No CPU waits for ever to print, unless a CPU was hit while it held the lock:
\* NMIs, exceptions and panics at any other point, and CPUs that return to
\* Linux, let all texts come out.
EveryTextComesOut == \A c \in Cpu :
    At(c, "lock") \/ At(c, "write") ~> ~(At(c, "lock") \/ At(c, "write")) \/ \E d \in Cpu : Hung(d)
=============================================================================
