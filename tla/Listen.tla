------------------------------- MODULE Listen -------------------------------
(***************************************************************************)
(* The search for a free UDP port (rtp/listen.go): bindRange and           *)
(* bindEvenRange start at a random port of the range and go round it, and  *)
(* other programs take and free ports in the meantime.                     *)
(***************************************************************************)
EXTENDS Integers

CONSTANTS MaxPort,      \* 0xFFFF
          PortArgs      \* values of the arguments portMin and portMax

ASSUME ListenAssumption == MaxPort \in Nat \ {0} /\ PortArgs \subseteq Int

VARIABLES request,      \* the arguments, and whether the port must be even
          portCurrent,
          try,          \* ports still to try
          inUse,        \* the ports other sockets are bound to
          tried,        \* history: the ports create was called with
          outcome       \* "none", "trying", and then what is returned

listenVars == <<request, portCurrent, try, inUse, tried, outcome>>

Ports == 1..MaxPort

ListenInit ==
  /\ request \in [even : BOOLEAN, min : PortArgs, max : PortArgs]
  /\ inUse \in SUBSET Ports
  /\ portCurrent = 0 /\ try = 0 /\ tried = {} /\ outcome = "none"

----------------------------------------------------------------------------

\* The bounds of the search: clamped, and in bindEvenRange made even.
portMin ==
  LET m == IF request.min <= 0 THEN 1 ELSE request.min
  IN  IF request.even THEN m + (m % 2) ELSE m
portMax ==
  LET m == IF request.max <= 0 \/ request.max > MaxPort THEN MaxPort ELSE request.max
  IN  IF request.even THEN m - (m % 2) ELSE m
stride == IF request.even THEN 2 ELSE 1
ports  == (portMax - portMin) \div stride + 1

anyPort == ~request.even /\ request.min <= 0 /\ request.max <= 0
onePort == ~request.even /\ ~anyPort /\ request.min = request.max

\* The system's answer to create(p); p = 0 stands for any free port.
answer(p) ==
  {"error"} \cup
    IF p > MaxPort THEN {}
    ELSE IF p \in inUse \/ (p = 0 /\ inUse = Ports) THEN {"inuse"}
    ELSE {"bound"}

\* Any port, or one: create is called once and what it says is returned.
ListenOnce ==
  LET p == IF anyPort THEN 0 ELSE request.min
  IN  /\ outcome = "none" /\ (anyPort \/ onePort)
      /\ outcome' \in answer(p)
      /\ tried' = {p}
      /\ UNCHANGED <<request, portCurrent, try, inUse>>

ListenRange ==
  /\ outcome = "none" /\ ~anyPort /\ ~onePort
  /\ IF portMin > portMax
     THEN outcome' = "failed" /\ UNCHANGED <<portCurrent, try>>
     ELSE /\ outcome' = "trying"
          /\ try' = ports
          /\ \E i \in 0..ports-1 : portCurrent' = portMin + stride * i
  /\ UNCHANGED <<request, inUse, tried>>

\* Mutant of nextPort: the wrap skips the last port.
MutNextPort(p) == IF p + stride >= portMax THEN portMin ELSE p + stride

nextPort(p) == IF p + stride > portMax THEN portMin ELSE p + stride

\* One iteration of the loop, and ErrListenFailed after the last.
Try ==
  /\ outcome = "trying" /\ try > 0
  /\ tried' = tried \cup {portCurrent}
  /\ \E a \in answer(portCurrent) :
       IF a = "inuse"
       THEN /\ portCurrent' = nextPort(portCurrent)
            /\ try' = try - 1
            /\ outcome' = IF try = 1 THEN "failed" ELSE "trying"
       ELSE outcome' = a /\ UNCHANGED <<portCurrent, try>>
  /\ UNCHANGED <<request, inUse>>

\* Another program binds a port, or frees one.
OthersBind ==
  /\ outcome = "trying"
  /\ \E p \in Ports : inUse' = IF p \in inUse THEN inUse \ {p} ELSE inUse \cup {p}
  /\ UNCHANGED <<request, portCurrent, try, tried, outcome>>

ListenNext == ListenOnce \/ ListenRange \/ Try \/ OthersBind

----------------------------------------------------------------------------

\* What the caller asked for: a bound that is not positive is no bound.
wantedPorts ==
  {p \in Ports : /\ request.min > 0 => p >= request.min
                 /\ request.max > 0 => p <= request.max
                 /\ request.even => p % 2 = 0}

\* The search goes round the whole range and never leaves it: whatever port it
\* starts from and whatever other programs do, only ports the caller asked for are
\* tried, and it reports that there is none only when each of them was in use
\* (bindRange, bindEvenRange).
PortsTried ==
  /\ tried \subseteq wantedPorts \/ anyPort \/ (onePort /\ request.min > MaxPort)
  /\ outcome = "failed" => tried = wantedPorts
  /\ outcome = "inuse" /\ ~anyPort => tried = wantedPorts
=============================================================================
