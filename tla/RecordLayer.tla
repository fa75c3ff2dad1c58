----------------------------- MODULE RecordLayer -----------------------------
(***************************************************************************)
(* One direction of a connection with a single writer: client.py towards   *)
(* the server, or the server towards a client as long as its handlers      *)
(* relay one at a time (RelayLink has the rest).  send_application_data    *)
(* and socket.send at one end; recv, receive_data and unprotect_record at  *)
(* the other.                                                              *)
(*                                                                         *)
(* The two writers differ in what a payload that is too long does to them: *)
(* the exception ends the client's loop and its connection (client.py:168, *)
(* 172), the relay logs it and goes on (server.py:187).                    *)
(*                                                                         *)
(* A record is a header with its length field, and a body: the payload     *)
(* with the content type and the authentication tag.  TCP hands out the    *)
(* stream in pieces that begin and end anywhere.  The stream is counted in *)
(* units, so that a piece can end inside a header, inside a body or        *)
(* between two records: two units for a header, one for type and tag, and  *)
(* one for each unit of payload.                                           *)
(*                                                                         *)
(* A payload matters by its length and by the zero bytes at its end.       *)
(***************************************************************************)
EXTENDS Naturals, Sequences

CONSTANTS
    MaxLen,      \* bound: the longest payload offered
    MaxField,    \* the largest value of the length field (65535 in the code)
    SeqLimit,    \* the number of record numbers (2^64 in the code)
    MaxCalls     \* bound: calls of send_application_data

ASSUME LengthAssumption == MaxLen \in Nat /\ MaxField \in Nat
ASSUME SeqLimitAssumption == SeqLimit \in Nat \ {0}
ASSUME MaxCallsAssumption == MaxCalls \in Nat

VARIABLES
    calls,      \* history: how often send_application_data was called
    sent,       \* history: the payloads whose record was written
    wnum,       \* the writer's cipher_suite.sequence_number
    catches,    \* the writer catches the exception: it is the relay
    ended,      \* the writer has left its loop
    wire,       \* records written and not yet taken out of the buffer
    inflight,   \* units written and not yet returned by recv
    buffered,   \* units in the receiver's buffer, from the head of wire on
    sameKeys,   \* the two ends derived the same keys
    rnum,       \* the receiver's cipher_suite.sequence_number
    got         \* history: the payloads receive_data returned

vars == <<calls, sent, wnum, catches, ended, wire, inflight, buffered, sameKeys, rnum, got>>
writer == <<calls, sent, wnum, catches, ended>>

Payload == {p \in [len : 1..MaxLen, zeros : 0..MaxLen] : p.zeros <= p.len}

Header == 2
Sealed(p) == p.len + 1                 \* content type and tag
Size(r) == Header + Sealed(r.payload)

\* Mutant of the next operator: the number wraps one record too late.
NextNumberLate(n) == IF n >= SeqLimit THEN 0 ELSE n + 1

\* Mutant of the next operator: the number wraps one record too early.
NextNumberEarly(n) == IF n + 2 >= SeqLimit THEN 0 ELSE n + 1

\* update_sequence_number: the number starts again when it is used up.
NextNumber(n) == IF n + 1 >= SeqLimit THEN 0 ELSE n + 1

\* What unprotect_record makes of the decrypted content: without the type, and
\* then without the zeros at the end, be they padding or payload.
Stripped(p) == [len |-> p.len - p.zeros, zeros |-> 0]

Init ==
    /\ calls = 0 /\ sent = <<>> /\ wnum = 0
    /\ catches \in BOOLEAN /\ ended = FALSE
    /\ wire = <<>> /\ inflight = 0 /\ buffered = 0
    /\ sameKeys \in BOOLEAN
    /\ rnum = 0 /\ got = <<>>

(***************************************************************************)
(* Mutated operations: plausible bugs, each of which some property below   *)
(* must notice.  They are not part of the specification.                   *)
(***************************************************************************)

\* The number is advanced before the length is found to be too large.
RefuseAdvancing(p) ==
    /\ Sealed(p) > MaxField
    /\ wnum' = NextNumber(wnum)
    /\ ended' = ~catches
    /\ UNCHANGED <<sent, wire, inflight>>

\* A record is returned only when it is the last one in the buffer.
UnprotectLastOnly ==
    /\ wire # <<>>
    /\ buffered >= Size(Head(wire))
    /\ wire' = Tail(wire)
    /\ buffered' = buffered - Size(Head(wire))
    /\ IF sameKeys /\ Head(wire).num = rnum
         THEN /\ rnum' = NextNumber(rnum)
              /\ got' = IF buffered = Size(Head(wire))
                          THEN Append(got, Stripped(Head(wire).payload)) ELSE got
         ELSE UNCHANGED <<rnum, got>>
    /\ UNCHANGED <<writer, inflight, sameKeys>>

\* A whole record waits for the first unit of the next one.
CompleteLate == wire # <<>> /\ buffered > Size(Head(wire))

(***************************************************************************)
(* The writer.                                                             *)
(***************************************************************************)

\* The record is built and written to the socket.
Write(p) ==
    /\ Sealed(p) <= MaxField
    /\ sent' = Append(sent, p)
    /\ wire' = Append(wire, [payload |-> p, num |-> wnum])
    /\ inflight' = inflight + Header + Sealed(p)
    /\ wnum' = NextNumber(wnum)
    /\ UNCHANGED ended

\* Packing the length field raises before anything is encrypted; the client
\* then closes the connection behind what it has written.
Refuse(p) ==
    /\ Sealed(p) > MaxField
    /\ ended' = ~catches
    /\ UNCHANGED <<sent, wnum, wire, inflight>>

Send ==
    /\ calls < MaxCalls /\ ~ended
    /\ calls' = calls + 1
    /\ \E p \in Payload : Write(p) \/ Refuse(p)
    /\ UNCHANGED <<catches, buffered, sameKeys, rnum, got>>

(***************************************************************************)
(* The receiver: receive_data takes every whole record out of the buffer   *)
(* before the next recv.                                                   *)
(***************************************************************************)

\* The header is there and all that its length field announces.
Complete == wire # <<>> /\ buffered >= Size(Head(wire))

Recv ==
    /\ ~Complete
    /\ \E k \in 1..inflight :
        /\ inflight' = inflight - k
        /\ buffered' = buffered + k
    /\ UNCHANGED <<writer, wire, sameKeys, rnum, got>>

\* A record that does not decrypt is skipped like one that does, but leaves
\* the record number alone.
Unprotect ==
    /\ Complete
    /\ wire' = Tail(wire)
    /\ buffered' = buffered - Size(Head(wire))
    /\ IF sameKeys /\ Head(wire).num = rnum
         THEN rnum' = NextNumber(rnum) /\ got' = Append(got, Stripped(Head(wire).payload))
         ELSE UNCHANGED <<rnum, got>>
    /\ UNCHANGED <<writer, inflight, sameKeys>>

Next == Send \/ Recv \/ Unprotect

Spec == Init /\ [][Next]_vars

\* What has been written arrives, unless the connection is reset, which is left
\* out, and the receiving thread runs.
FairSpec == Spec /\ WF_vars(Recv) /\ WF_vars(Unprotect)

(***************************************************************************)
(* Properties.                                                             *)
(***************************************************************************)

TypeOK ==
    /\ calls \in 0..MaxCalls
    /\ sent \in Seq(Payload)
    /\ wnum \in 0..(SeqLimit - 1)
    /\ catches \in BOOLEAN /\ ended \in BOOLEAN
    /\ wire \in Seq([payload : Payload, num : 0..(SeqLimit - 1)])
    /\ inflight \in Nat
    /\ buffered \in Nat
    /\ sameKeys \in BOOLEAN
    /\ rnum \in 0..(SeqLimit - 1)
    /\ got \in Seq([len : 0..MaxLen, zeros : {0}])

\* Units of the first n records of the stream.
Units[n \in Nat] == IF n = 0 THEN 0 ELSE Units[n - 1] + Size(wire[n])

\* However the pieces were cut, the buffer continues where the last whole
\* record ended: no unit is lost or parsed twice, with the right keys or not.
Framed == buffered + inflight = Units[Len(wire)]

\* With a single writer no record ever fails: the receiver expects the number
\* of the next record, over refused payloads, a wrap of the number and every
\* cut of the stream.
InStep ==
    sameKeys =>
        /\ wire = <<>> => wnum = rnum
        /\ wire # <<>> => wire[1].num = rnum /\ wnum = NextNumber(wire[Len(wire)].num)
        /\ \A i \in 1..(Len(wire) - 1) : wire[i + 1].num = NextNumber(wire[i].num)

\* Until all numbers have been used, the next record has a number no record had
\* before, whatever was refused in between.  (Behind the wrap the nonces repeat.)
FreshUntilWrap == Len(sent) < SeqLimit => wnum = Len(sent)

\* The record layer implements a channel for payloads without the zeros at
\* their end.
Fifo == INSTANCE Channel WITH
    Contents <- {Stripped(p) : p \in Payload},
    sent <- [i \in 1..Len(sent) |-> Stripped(sent[i])]

ImplementsChannel == Fifo!Spec

\* A payload that was written comes out at the other end; none is kept in the
\* buffer waiting for more.  A refused payload costs only itself where the
\* writer goes on, and nothing of what was written before where it ends.
AllArrive ==
    \A n \in 1..MaxCalls : Len(sent) >= n ~> (Len(got) >= n \/ ~sameKeys)
=============================================================================
