--------------------------- MODULE ControlStream ---------------------------
(***************************************************************************)
(* The server's half of a control stream: one protocol.Encoder per         *)
(* connection, shared by the message loop and by the goroutine of every    *)
(* proxied request (sendRequestLog), and the client's Decoder.             *)
(*                                                                         *)
(* A frame is a header unit, which fixes the length, and a payload unit    *)
(* unless the payload is empty.  The stream holds Window units.            *)
(***************************************************************************)
EXTENDS Naturals, Sequences, SequencesExt

CONSTANTS
  Conns,     \* connections
  Messages,  \* messages the server sends
  Empty,     \* SUBSET Messages: those without a payload
  Window     \* units a stream takes before a write blocks

ASSUME WindowAssumption == Window \in Nat \ {0} /\ Empty \subseteq Messages

VARIABLES
  up,       \* the session of a connection is open
  mu,       \* Encoder.mu: held, with the frame half written
  wire,     \* units written and not yet read
  decHead,  \* the header the decoder has read, while it wants the payload
  decBad    \* it has read a payload as a length, or another frame's payload

streamVars == <<up, mu, wire, decHead, decBad>>

Nothing == "nothing"

StreamTypeOK ==
  /\ up \in [Conns -> BOOLEAN] /\ mu \in [Conns -> BOOLEAN]
  /\ \A t \in Conns :
       wire[t] \in Seq({"head", "body"} \X Messages) /\ Len(wire[t]) <= Window
  /\ decHead \in [Conns -> Messages \cup {Nothing}]
  /\ decBad \in [Conns -> BOOLEAN]

StreamInit ==
  /\ up = [t \in Conns |-> TRUE] /\ mu = [t \in Conns |-> FALSE]
  /\ wire = [t \in Conns |-> <<>>]
  /\ decHead = [t \in Conns |-> Nothing]
  /\ decBad = [t \in Conns |-> FALSE]

Write(t, unit) ==
  /\ up[t] /\ Len(wire[t]) < Window
  /\ wire' = [wire EXCEPT ![t] = Append(@, unit)]

(* Faulty variant: the mutex is not taken.                                 *)
EncodeHeader_NoMutex(t, m) ==
  /\ Write(t, <<"head", m>>)
  /\ UNCHANGED <<up, mu, decHead, decBad>>

(* e.mu.Lock() and the write of the header; with an empty payload Encode   *)
(* returns and unlocks.                                                    *)
EncodeHeader(t, m) ==
  /\ ~mu[t] /\ Write(t, <<"head", m>>)
  /\ mu' = [mu EXCEPT ![t] = m \notin Empty]
  /\ UNCHANGED <<up, decHead, decBad>>

(* The write of the payload and the deferred unlock.                       *)
EncodeBody(t, m) ==
  /\ Write(t, <<"body", m>>)
  /\ mu' = [mu EXCEPT ![t] = FALSE]
  /\ UNCHANGED <<up, decHead, decBad>>

(* Faulty variant: an error returns with the mutex held.                   *)
EncodeFails_KeepsLock(t, holds) ==
  /\ ~up[t] /\ (holds \/ ~mu[t])
  /\ UNCHANGED streamVars

(* A write fails once the session is closed: Encode returns the error and  *)
(* the deferred unlock runs.                                               *)
EncodeFails(t, holds) ==
  /\ ~up[t] /\ (holds \/ ~mu[t])
  /\ mu' = [mu EXCEPT ![t] = FALSE]
  /\ UNCHANGED <<up, wire, decHead, decBad>>

(* Decode reads a length first, whatever the bytes are ...                 *)
DecodeHeader(t) ==
  /\ up[t] /\ wire[t] # <<>> /\ decHead[t] = Nothing
  /\ LET unit == Head(wire[t]) IN
     /\ decHead' = [decHead EXCEPT ![t] =
                      IF unit[2] \in Empty THEN Nothing ELSE unit[2]]
     /\ decBad' = [decBad EXCEPT ![t] = @ \/ unit[1] # "head"]
  /\ wire' = [wire EXCEPT ![t] = Tail(@)]
  /\ UNCHANGED <<up, mu>>

(* ... and then as much as that length says.                               *)
DecodeBody(t) ==
  /\ up[t] /\ wire[t] # <<>> /\ decHead[t] # Nothing
  /\ decBad' = [decBad EXCEPT ![t] = @ \/ Head(wire[t]) # <<"body", decHead[t]>>]
  /\ decHead' = [decHead EXCEPT ![t] = Nothing]
  /\ wire' = [wire EXCEPT ![t] = Tail(@)]
  /\ UNCHANGED <<up, mu>>

(* Either end closes the session; what was on its way is not read.         *)
SessionCloses(t) ==
  /\ up[t]
  /\ up' = [up EXCEPT ![t] = FALSE]
  /\ wire' = [wire EXCEPT ![t] = <<>>]
  /\ UNCHANGED <<mu, decHead, decBad>>

(* The client decodes the frames that were encoded: it never takes part of *)
(* a payload for a length, nor one message's payload for another's,        *)
(* although goroutines of different requests write to the stream.          *)
FramesIntact == \A t \in Conns : ~decBad[t]
=============================================================================
