-------------------------------- MODULE Uart --------------------------------
(***************************************************************************)
(* Set-up of the serial port (crates/uart_16550/src/lib.rs).  uart is the  *)
(* register file of the 16550; one step of init() is one write to a port.  *)
(***************************************************************************)
EXTENDS Integers, Sequences

CONSTANT Speeds  \* the baud rates init() is called with

\* The divisor has 16 bits: there is no room for that of speed 1, and that of
\* a speed above 115200 would be 0.
ASSUME SpeedsAssumption == \A s \in Speeds : s \in Nat /\ 2 <= s /\ s <= 115200

UART_CLOCK_FACTOR == 16
OSC_FREQ == 1843200

\* The variants Baud110 .. Baud115200, by their number; any other speed is
\* BaudOther.
Standard == {110, 300, 600, 1200, 2400, 4800, 9600, 19200, 38400, 57600, 115200}
from_speed(n) == IF n \in Standard THEN [baud |-> n, other |-> FALSE] ELSE [baud |-> n, other |-> TRUE]
speed(b) == b.baud

uart_divisor(b) ==
    LET d == (OSC_FREQ \div (speed(b) * UART_CLOCK_FACTOR)) % 65536
    IN  [least |-> d % 256, most |-> d \div 256]

\* A write to a port of the 16550: with DLAB (bit 7 of line_ctrl) set, the
\* first two ports are the divisor latch.
DLAB(u) == u.line_ctrl >= 128
PortWrite(u, port, val) ==
    CASE port = "data" /\ DLAB(u)     -> [u EXCEPT !.dll = val]
      [] port = "data" /\ ~ DLAB(u)   -> [u EXCEPT !.sent = Append(@, val)]
      [] port = "int_en" /\ DLAB(u)   -> [u EXCEPT !.dlm = val]
      [] OTHER                        -> [u EXCEPT ![port] = val]

\* Mutant: the low byte of the divisor is written before DLAB is set.
InitDataFirst(b) ==
    << <<"int_en", 0>>, <<"data", uart_divisor(b).least>>, <<"line_ctrl", 128>>,
       <<"int_en", uart_divisor(b).most>>, <<"line_ctrl", 3>>, <<"fifo_ctrl", 199>>,
       <<"modem_ctrl", 11>>, <<"int_en", 1>> >>

\* The writes of init(), in order.
init(b) ==
    << <<"int_en", 0>>, <<"line_ctrl", 128>>, <<"data", uart_divisor(b).least>>,
       <<"int_en", uart_divisor(b).most>>, <<"line_ctrl", 3>>, <<"fifo_ctrl", 199>>,
       <<"modem_ctrl", 11>>, <<"int_en", 1>> >>

-----------------------------------------------------------------------------
VARIABLES uart, baud, step
uart_vars == <<uart, baud, step>>

\* The firmware may have left the port with DLAB set and any divisor.
UartInit == /\ uart \in [int_en : {0, 15}, fifo_ctrl : {0}, line_ctrl : {3, 131}, modem_ctrl : {0},
                         dll : {12}, dlm : {0}, sent : {<<>>}]
            /\ baud \in {from_speed(s) : s \in Speeds}
            /\ step = 1

UartNext == /\ step <= Len(init(baud))
            /\ uart' = PortWrite(uart, init(baud)[step][1], init(baud)[step][2])
            /\ step' = step + 1
            /\ UNCHANGED baud

UartSpec == UartInit /\ [][UartNext]_uart_vars

-----------------------------------------------------------------------------
Done == step > Len(init(baud))
Divisor == uart.dll + 256 * uart.dlm
Ticks == OSC_FREQ \div UART_CLOCK_FACTOR

\* After init() the port runs at the slowest rate it can that is not below
\* the one asked for, and exactly at a standard one.
RunsAtSpeed ==
    Done => /\ Divisor > 0
            /\ Ticks \div Divisor >= baud.baud
            /\ Ticks \div (Divisor + 1) < baud.baud
            /\ ~ baud.other => Ticks \div Divisor = baud.baud

\* Nothing goes out on the line while the port is set up, and after init()
\* the data port takes data: DLAB is clear, with 8-bit words.
ReadyForData == uart.sent = <<>> /\ (Done => uart.line_ctrl = 3 /\ uart.int_en = 1)

\* Nothing goes out on the line while the port is set up; after init() the data
\* port takes data, at the slowest rate not below the one asked for and
\* exactly at a standard one (SerialPort::init, uart_divisor).
ReadyAtSpeed == ReadyForData /\ RunsAtSpeed
=============================================================================
