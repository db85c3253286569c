----------------------------- MODULE MCConsole ------------------------------
(***************************************************************************)
(* Console for TLC: two CPUs; texts with a line end, a backspace and a     *)
(* byte above 127.  Beside it Uart, the set-up of the port; the two share  *)
(* no state, so each is explored while the other rests.                    *)
(***************************************************************************)
EXTENDS Console, Uart

VARIABLE part

all_vars == <<part, vars, uart_vars>>

Texts == {[level |-> Info, text |-> <<"HI", "LF">>], [level |-> Off, text |-> <<"BS">>],
          [level |-> Trace, text |-> <<"x">>]}

Rates == {2, 3, 50, 110, 300, 600, 1200, 2400, 4800, 9600, 14400, 19200, 31250, 38400, 57600,
          76800, 115199, 115200}

ConsoleInit ==
    /\ Init
    /\ \/ part = "port" /\ UartInit /\ max_level = Off /\ state = [c \in Cpu |-> "enabled"]
       \/ /\ part = "print" /\ UartInit
          /\ baud.baud = 115200 /\ uart.int_en = 0 /\ uart.line_ctrl = 3

ConsoleNext ==
    /\ UNCHANGED part
    /\ \/ part = "port" /\ UartNext /\ UNCHANGED vars
       \/ part = "print" /\ Next /\ UNCHANGED uart_vars

ConsoleSpec == ConsoleInit /\ [][ConsoleNext]_all_vars /\ Fairness
=============================================================================
