---------------------------- MODULE SRTPSession ----------------------------
(***************************************************************************)
(* The SRTP session (srtp/srtp.go), which keeps the streams that pion's    *)
(* session handed over because pion closes none of them: AcceptStream      *)
(* appends to streams after pion returned, Close stops pion and then       *)
(* closes what is in the list.  pion's session is external: it hands over  *)
(* streams until it is closed and reports an error after that.             *)
(***************************************************************************)
EXTENDS Integers

CONSTANTS Acceptors,    \* goroutines in AcceptStream
          Closers,      \* goroutines in Close
          Streams       \* the remote streams there can be

NoStream == "nostream"

ASSUME SRTPAssumption == NoStream \notin Streams

VARIABLES pionOpen,
          streams,
          hand,         \* by acceptor: the stream pion returned, not yet appended
          closing,      \* by closer: where it is
          taken,        \* by closer: the streams it took from the list
          accepted,     \* history: the streams pion returned
          shut,         \* the streams that were closed
          missed        \* history: what was in hand when the list was last taken

srtpVars == <<pionOpen, streams, hand, closing, taken, accepted, shut, missed>>

SRTPInit ==
  /\ pionOpen = TRUE
  /\ streams = {} /\ accepted = {} /\ shut = {} /\ missed = {}
  /\ hand = [a \in Acceptors |-> NoStream]
  /\ closing = [c \in Closers |-> "idle"]
  /\ taken = [c \in Closers |-> {}]

----------------------------------------------------------------------------

\* pion's AcceptStream returns a stream; when it returns an error nothing changes.
Accept(a) ==
  /\ pionOpen /\ hand[a] = NoStream
  /\ \E s \in Streams \ accepted :
       hand' = [hand EXCEPT ![a] = s] /\ accepted' = accepted \cup {s}
  /\ UNCHANGED <<pionOpen, streams, closing, taken, shut, missed>>

\* The rest of AcceptStream, under the mutex.
Keep(a) ==
  /\ hand[a] # NoStream
  /\ streams' = streams \cup {hand[a]}
  /\ hand' = [hand EXCEPT ![a] = NoStream]
  /\ UNCHANGED <<pionOpen, closing, taken, accepted, shut, missed>>

\* Mutant of mayTake: the list is taken before pion's session is stopped.
MutMayTake(c) == closing[c] \in {"idle", "stopped"}

mayTake(c) == closing[c] = "stopped"

StopPackets(c) ==
  /\ closing[c] = "idle"
  /\ pionOpen' = FALSE
  /\ closing' = [closing EXCEPT ![c] = "stopped"]
  /\ UNCHANGED <<streams, hand, taken, accepted, shut, missed>>

TakeStreams(c) ==
  /\ mayTake(c)
  /\ taken' = [taken EXCEPT ![c] = streams]
  /\ streams' = {}
  /\ closing' = [closing EXCEPT ![c] = "took"]
  /\ missed' = {hand[a] : a \in Acceptors} \ {NoStream}
  /\ UNCHANGED <<pionOpen, hand, accepted, shut>>

CloseStream(c) ==
  /\ closing[c] = "took"
  /\ IF taken[c] = {}
     THEN closing' = [closing EXCEPT ![c] = "done"] /\ UNCHANGED <<taken, shut>>
     ELSE \E s \in taken[c] :
            /\ shut' = shut \cup {s}
            /\ taken' = [taken EXCEPT ![c] = @ \ {s}]
            /\ UNCHANGED closing
  /\ UNCHANGED <<pionOpen, streams, hand, accepted, missed>>

SRTPNext ==
  \/ \E a \in Acceptors : Accept(a) \/ Keep(a)
  \/ \E c \in Closers : StopPackets(c) \/ TakeStreams(c) \/ CloseStream(c)

----------------------------------------------------------------------------

\* After Close no stream is left whose reader would wait for ever, but one: a
\* stream that AcceptStream had from pion and had not yet put in the list when
\* Close took it (the TODO in AcceptStream).  Stopping pion first is what keeps
\* it to those (session.Close).
OnlyInHandLeaks ==
  (/\ \E c \in Closers : closing[c] = "done"
   /\ \A c \in Closers : closing[c] \in {"idle", "done"})
    => accepted \subseteq shut \cup missed
=============================================================================
