---------------------------- MODULE JitterHandler ----------------------------
(***************************************************************************)
(* The jitter buffer where it is used: as an RTP handler (rtp/jitter.go)   *)
(* that a Mux (rtp/mux.go) finds by the payload type, in front of the      *)
(* handler h that plays the packets.                                       *)
(*                                                                         *)
(* One goroutine feeds the mux with packets.  The mux looks the handler up *)
(* under its lock and calls it without, so that a packet may be on its way *)
(* to a handler that was removed meanwhile.  The owner removes the handler *)
(* and then closes it, which closes the buffer and h in turn.  h is called *)
(* by whoever pops a sample, that is by the feeder, by the timer's         *)
(* goroutine, or by Close, always under the mutex of the buffer.           *)
(***************************************************************************)
EXTENDS JitterBuffer

VARIABLES
  feed,        \* the feeder: "idle", or where it is in HandleRTP
  registered,  \* does the mux have the handler?
  hClosed,     \* h.Close was called
  failing,     \* does h.HandleRTP return errors?
  err,         \* the errors in the channel, at most one
  owed,        \* history: h failed since HandleRTP returned last
  inFlight,    \* history: packets past the mux when the handler was removed
  late         \* history: samples that h was given after it was closed

handler == <<feed, registered, hClosed, failing, err, owed, inFlight, late>>

handlerVars == <<vars, handler>>

HandlerInit ==
  /\ Init
  /\ feed = "idle" /\ registered = TRUE /\ hClosed = FALSE
  /\ failing \in BOOLEAN
  /\ err = 0 /\ owed = FALSE /\ inFlight = 0 /\ late = 0

----------------------------------------------------------------------------

\* Mux.HandleRTP picks the handler under the lock; without one, and without a
\* default, the packet is dropped.
Lookup ==
  /\ feed = "idle" /\ registered
  /\ stats["pushed"] < MaxPush /\ now <= PushHorizon
  /\ feed' = "found"
  /\ UNCHANGED <<vars, registered, hClosed, failing, err, owed, inFlight, late>>

\* The handler's HandleRTP pushes the packet.
HandleRTP ==
  /\ feed = "found"
  /\ PushAt
  /\ feed' = IF pc' = "idle" THEN "pushed" ELSE "push"
  /\ UNCHANGED <<registered, hClosed, failing, err, owed, inFlight, late>>

\* An error of h is kept if there is room for it.
errSent(e) == IF e = 0 THEN 1 ELSE e

\* onPacket: the holder of the mutex gives a sample to h.
emitted == stats'["samples"] > stats["samples"]

\* The holder of the mutex goes on; the push of the feeder is over when it is
\* released.
Step ==
  /\ Holder
  /\ feed' = IF feed = "push" /\ pc' = "idle" THEN "pushed" ELSE feed
  /\ IF emitted
     THEN /\ err' = IF failing THEN errSent(err) ELSE err
          /\ owed' = (owed \/ failing)
          /\ late' = IF hClosed THEN late + 1 ELSE late
     ELSE UNCHANGED <<err, owed, late>>
  /\ UNCHANGED <<registered, hClosed, failing, inFlight>>

\* HandleRTP takes an error from the channel, if there is one, and returns it.
Return ==
  /\ feed = "pushed"
  /\ feed' = "idle" /\ err' = 0 /\ owed' = FALSE
  /\ UNCHANGED <<vars, registered, hClosed, failing, inFlight, late>>

\* Register with nil.
Unregister ==
  /\ registered
  /\ registered' = FALSE
  /\ inFlight' = IF feed \in {"found", "push"} THEN 1 ELSE 0
  /\ UNCHANGED <<vars, feed, hClosed, failing, err, owed, late>>

\* jitterHandler.Close, once the handler is removed: first the buffer, ...
CloseBuffer ==
  /\ ~registered
  /\ Close
  /\ UNCHANGED handler

\* Mutant of bufferClosed: h is closed as soon as the handler is removed.
MutCloseAtOnce == ~registered

bufferClosed == closer = "closed"

\* ... then h.
CloseH ==
  /\ bufferClosed /\ ~hClosed
  /\ hClosed' = TRUE
  /\ UNCHANGED <<vars, feed, registered, failing, err, owed, inFlight, late>>

Around ==
  /\ Loop \/ UpdateLatency \/ Flush \/ Tick
  /\ UNCHANGED handler

HandlerNext ==
  \/ Lookup \/ HandleRTP \/ Step \/ Return
  \/ Unregister \/ CloseBuffer \/ CloseH
  \/ Around

HandlerSpec == HandlerInit /\ [][HandlerNext]_handlerVars

----------------------------------------------------------------------------

\* Once h is closed it is given at most the packets that had passed the mux
\* when the handler was removed: whatever was buffered has been played or given
\* up before, and neither a timer armed by a late push nor a flush replays it
\* (jitterHandler.Close, Mux.HandleRTP).
LateOnlyInFlight == late <= inFlight

\* An error of h is not forgotten before a HandleRTP has returned it: the one in
\* which it happened or, if it was the timer or a flush that played the sample,
\* the next one.
ErrorsKept == owed => err = 1

\* What the handler behind the jitter buffer can rely on, and its caller.
HandlerContract == LateOnlyInFlight /\ ErrorsKept
=============================================================================
