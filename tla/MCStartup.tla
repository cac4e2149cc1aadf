-------------------------------- MODULE MCStartup -------------------------------
(* Four channels in two modules, as on the RX64M.                          *)
EXTENDS Startup, SysTime

ChannelPair == [c \in 0 .. 3 |-> c \div 2]

(* Every day of some years of the century is followed by the next one.     *)
ASSUME CalendarAssumption ==
  \A y \in {2001, 2004, 2013, 2096, 2099}, m \in 1 .. 12 : \A d \in 1 .. LengthOf(m, y) :
    LET n == NextDate(d, m, y)
    IN  /\ n[1] \in 1 .. LengthOf(n[2], n[3])
        /\ DayNumber(n[1], n[2], n[3]) = DayNumber(d, m, y) + 1
====
