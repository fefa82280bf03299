------------------------------ MODULE WsStream ------------------------------
(***************************************************************************)
(* What a WebSocket session promises its user, whatever its threads do:     *)
(* results are given in the order of the stream, a message that is not JSON *)
(* is reported when it is read, no more than a fixed number of messages is  *)
(* taken from the network before the handler has them, and every stop is    *)
(* answered with one Disconnect.                                            *)
(***************************************************************************)
EXTENDS Naturals, Sequences

CONSTANT Room  \* messages that may be taken and not yet given

VARIABLES
  backlog,   \* messages taken from the stream and not yet given
  taken,     \* number of messages taken
  given,     \* messages the handler was called with
  owed,      \* stops not yet answered
  answered,  \* Disconnects given
  ended      \* the session is being destroyed, or was

streamPromise == <<backlog, taken, given, owed, answered, ended>>

StreamInit ==
  /\ backlog = <<>>
  /\ taken = 0
  /\ given = {}
  /\ owed = 0
  /\ answered = 0
  /\ ended = FALSE

Take ==
  /\ ~ended
  /\ Len(backlog) < Room
  /\ taken' = taken + 1
  /\ \/ backlog' = Append(backlog, taken') /\ UNCHANGED given
     \/ given' = given \cup {taken'} /\ UNCHANGED backlog
  /\ UNCHANGED <<owed, answered, ended>>

Give ==
  /\ backlog # <<>>
  /\ given' = given \cup {Head(backlog)}
  /\ backlog' = Tail(backlog)
  /\ UNCHANGED <<taken, owed, answered, ended>>

Stop ==
  /\ ~ended
  /\ owed' = owed + 1
  /\ UNCHANGED <<backlog, taken, given, answered, ended>>

Answer ==
  /\ owed > 0
  /\ owed' = owed - 1
  /\ answered' = answered + 1
  /\ UNCHANGED <<backlog, taken, given, ended>>

\* Nothing is owed any more; what was not given may be dropped.
End ==
  /\ ~ended
  /\ owed = 0
  /\ ended' = TRUE
  /\ backlog' \in {backlog, <<>>}
  /\ UNCHANGED <<taken, given, owed, answered>>

StreamNext == Take \/ Give \/ Stop \/ Answer \/ End

StreamSafety == StreamInit /\ [][StreamNext]_streamPromise

StreamSpec ==
  /\ StreamSafety
  /\ WF_streamPromise(Give)
  /\ WF_streamPromise(Answer)
=============================================================================
