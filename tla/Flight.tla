------------------------------- MODULE Flight -------------------------------
(***************************************************************************)
(* The handshake messages behind the hellos - EncryptedExtensions,         *)
(* Certificate, CertificateVerify, Finished - and the application data     *)
(* between and behind them, from one end of a connection to the other      *)
(* through a TLSRecordManager, with the keys of the handshake and of the   *)
(* application phase.  The chat programs send none of these messages: each *)
(* action is a call any user of the library may make, in any order, up to  *)
(* the bounds named below and at the actions.  enable_encryption takes any *)
(* keys the end has come by, those in use and earlier ones included.  The  *)
(* hellos have been exchanged whole, so both ends hold the same handshake  *)
(* traffic secrets.                                                        *)
(*                                                                         *)
(* Messages are sequences of units that stand for bytes: one for the type, *)
(* one for the length of the body, then the body, a unit of which is 0 or  *)
(* not.  A caller may put several messages into one record or one into     *)
(* several.                                                                *)
(***************************************************************************)
EXTENDS Naturals, Sequences, SequencesExt, FiniteSetsExt

CONSTANTS
    MaxMsgs,    \* bound: handshake messages composed
    MaxRecords, \* bound: records written
    MaxLag,     \* bound: records written and not yet read
    MaxUpdates, \* bound: updates of an application traffic secret, per end
    MaxAgain    \* bound: keys that an end enables more than once; with the first of
                \* them, one message and one record fewer

ASSUME BoundsAssumption == MaxMsgs \in Nat /\ MaxRecords \in Nat
                            /\ MaxLag \in Nat \ {0} /\ MaxUpdates \in Nat
                            /\ MaxAgain \in Nat

VARIABLES
    transcript, \* each end's transcript behind the hellos
    ends,      \* history: where each message in a transcript ends
    off,       \* units of the messages already put into records
    stream,    \* history: the records written
    pos,       \* how many of them the reader has processed
    secret,    \* each end's application traffic secret of this direction
    key,       \* the keys of each end's record manager
    num,       \* and its record number
    enabled,   \* history: the keys each end has enabled
    again,     \* history: the keys it has enabled more than once
    hbuf,      \* the reader's handshake_buffer
    read,      \* history: positions of the records it unprotected
    lost,      \* history: positions of the records it skipped or misread
    cut        \* history: where zeros were taken off handshake data: the unit
               \* of the writer's transcript that was the first to go

writerVars == <<off, stream>>
readerVars == <<pos, hbuf, read, lost, cut>>
historyVars == <<enabled, again>>
keyVars == <<secret, key, num, historyVars>>
vars == <<transcript, ends, writerVars, readerVars, keyVars>>

Parties == {"writer", "reader"}

\* Keys, by what they are made of: nothing; the handshake secret; the
\* transcript an application secret was derived from, and its updates.
None == [phase |-> 0, transcript |-> <<>>, updates |-> 0]
HandshakeKey == [None EXCEPT !.phase = 1]
ApplicationKey(t) == [phase |-> 2, transcript |-> t, updates |-> 0]

EncryptedExtensions == <<8, 1, 0>>  \* no extensions: the length 0
Certificate == <<11, 2, 0, 0>>      \* no entry; an entry ends in 0 too
CertificateVerify == <<15, 1, 1>>   \* a signature
Finished == <<20, 2, 1, 0>>         \* a digest, which may end in a zero

Messages == {EncryptedExtensions, Certificate, CertificateVerify, Finished}

Init ==
    /\ transcript = [e \in Parties |-> <<>>] /\ ends = [e \in Parties |-> <<>>]
    /\ off = 0 /\ stream = <<>>
    /\ secret = [e \in Parties |-> None]
    /\ key = [e \in Parties |-> None]
    /\ num = [e \in Parties |-> 0]
    /\ enabled = [e \in Parties |-> {}] /\ again = [e \in Parties |-> {}]
    /\ pos = 0 /\ hbuf = <<>>
    /\ read = {} /\ lost = {} /\ cut = {}

\* The messages sent whole when the first n units of them are sent.
WholeWithin(n) == Cardinality({i \in DOMAIN ends["writer"] : ends["writer"][i] <= n})

\* The keys an end has: of the handshake, of its application secret and of what
\* that was before its updates.
Held(e) ==
    {HandshakeKey} \union
    ({[secret[e] EXCEPT !.updates = u] : u \in 0..secret[e].updates} \ {None})

\* No end has enabled a key more than once.
NoneAgain == \A e \in Parties : again[e] = {}

\* The cipher suite is made of the key, whether it is a new one or not.
Use(e, k) ==
    /\ key' = [key EXCEPT ![e] = k]
    /\ enabled' = [enabled EXCEPT ![e] = @ \union {k}]
    /\ again' = [again EXCEPT ![e] = IF k \in enabled[e] THEN @ \union {k} ELSE @]
    /\ Cardinality(again'["writer"]) + Cardinality(again'["reader"]) <= MaxAgain
    /\ again' = again \/ (Len(ends["writer"]) < MaxMsgs /\ Len(stream) < MaxRecords)

\* Content without the zeros at its end.
Stripped(c) == SubSeq(c, 1, Max({0} \union {i \in DOMAIN c : c[i] # 0}))

(***************************************************************************)
(* Mutated operations: plausible bugs, each of which some property below   *)
(* must notice.  They are not part of the specification.                   *)
(***************************************************************************)

\* The application secret is derived from the hellos alone.
DeriveFromHellos(e) ==
    /\ secret[e] = None /\ key[e] = HandshakeKey
    /\ secret' = [secret EXCEPT ![e] = ApplicationKey(<<>>)]
    /\ UNCHANGED <<transcript, ends, key, num, historyVars, writerVars, readerVars>>

\* The record number goes on when keys are changed.
EnableKeepNumber(e) ==
    /\ \E k \in Held(e) : Use(e, k)
    /\ UNCHANGED <<num, transcript, ends, secret, writerVars, readerVars>>

\* Only handshake records advance the record number.
WriteUncounted(type, content) ==
    /\ Len(stream) < MaxRecords /\ Len(stream) - pos < MaxLag
    /\ NoneAgain \/ Len(stream) + 1 < MaxRecords
    /\ stream' = Append(stream, [type |-> type, content |-> content, upto |-> off',
                                 key |-> key["writer"], num |-> num["writer"]])
    /\ num' = IF key["writer"] = None \/ type = "data" THEN num
              ELSE [num EXCEPT !["writer"] = @ + 1]
    /\ UNCHANGED <<transcript, ends, secret, key, historyVars, readerVars>>

\* One message is taken out of the buffer for each record.
ExtractedFirst(b) ==
    IF Len(b) >= 2 /\ Len(b) >= 2 + b[2] THEN <<2 + b[2]>> ELSE <<>>

\* What is left in the buffer behind a record's messages is dropped.
ProcessDropRest(r, content) ==
    /\ read' = read \union {pos + 1}
    /\ UNCHANGED lost
    /\ IF r.type = "handshake" /\ Len(content) >= 2 /\ Len(content) >= 2 + content[2]
         THEN /\ hbuf' = <<>>
              /\ transcript' = [transcript EXCEPT !["reader"] =
                                  @ \o SubSeq(content, 1, 2 + content[2])]
              /\ ends' = [ends EXCEPT !["reader"] =
                            Append(@, Len(transcript["reader"]) + 2 + content[2])]
         ELSE UNCHANGED <<hbuf, transcript, ends>>

\* A record is accepted under any later number.
ReceiveProtectedLater(r) ==
    /\ key["reader"] # None
    /\ r.key = key["reader"] /\ r.num >= num["reader"]
    /\ read' = read \union {pos + 1}
    /\ num' = [num EXCEPT !["reader"] = r.num + 1]
    /\ UNCHANGED <<transcript, ends, hbuf, lost, cut>>

(***************************************************************************)
(* Keys: the calls are the same at both ends.                              *)
(***************************************************************************)

\* derive_application_secrets with the transcript as it is; bound: once, when
\* the keys of the handshake are in use.
Derive(e) ==
    /\ secret[e] = None /\ key[e] = HandshakeKey
    /\ secret' = [secret EXCEPT ![e] = ApplicationKey(transcript[e])]
    /\ UNCHANGED <<transcript, ends, key, num, historyVars, writerVars, readerVars>>

\* update_application_traffic_secret; bound: when the secret is in use.  Without
\* a secret it raises.
Update(e) ==
    /\ secret[e] # None /\ key[e] = secret[e]
    /\ secret[e].updates < MaxUpdates
    /\ secret' = [secret EXCEPT ![e].updates = @ + 1]
    /\ UNCHANGED <<transcript, ends, key, num, historyVars, writerVars, readerVars>>

\* enable_encryption with any keys the end has: it does not ask whether they have
\* been used.  The record number starts again; the handshake buffer is left as it
\* is.
Enable(e) ==
    /\ \E k \in Held(e) : Use(e, k)
    /\ num' = [num EXCEPT ![e] = 0]
    /\ UNCHANGED <<transcript, ends, secret, writerVars, readerVars>>

(***************************************************************************)
(* The writer.                                                             *)
(***************************************************************************)

\* A message is serialised and added to the transcript; bound: each at most
\* once, in the order of a flight.  For a Finished, derive_finished_keys has been
\* called before; otherwise create_finished raises and changes nothing.
Compose ==
    /\ Len(ends["writer"]) < MaxMsgs
    /\ NoneAgain \/ Len(ends["writer"]) + 1 < MaxMsgs
    /\ \E m \in Messages :
        /\ \A i \in DOMAIN transcript["writer"] : transcript["writer"][i] < m[1]
        /\ transcript' = [transcript EXCEPT !["writer"] = @ \o m]
    /\ ends' = [ends EXCEPT !["writer"] = Append(@, Len(transcript'["writer"]))]
    /\ UNCHANGED <<writerVars, keyVars, readerVars>>

\* send_record: protected once keys are enabled, and then numbered.
Write(type, content) ==
    /\ Len(stream) < MaxRecords /\ Len(stream) - pos < MaxLag
    /\ NoneAgain \/ Len(stream) + 1 < MaxRecords
    /\ stream' = Append(stream, [type |-> type, content |-> content, upto |-> off',
                                 key |-> key["writer"], num |-> num["writer"]])
    /\ num' = IF key["writer"] = None THEN num ELSE [num EXCEPT !["writer"] = @ + 1]
    /\ UNCHANGED <<transcript, ends, secret, key, historyVars, readerVars>>

SendHandshake ==
    \E n \in (off + 1)..Len(transcript["writer"]) :
        /\ off' = n
        /\ Write("handshake", SubSeq(transcript["writer"], off + 1, n))

SendData ==
    /\ off' = off
    /\ Write("data", <<>>)

(***************************************************************************)
(* The reader.                                                             *)
(***************************************************************************)

\* _extract_handshake_messages: where the whole messages in buffer b end.
Extracted(b) ==
    LET ended[n \in 0..Len(b)] ==
          IF n = 0 THEN <<>>
          ELSE LET before == ended[n - 1]
                   from == IF before = <<>> THEN 0 ELSE Last(before)
                   to == from + 2 + b[from + 2]
               IN IF from + 2 <= Len(b) /\ to <= Len(b) THEN Append(before, to) ELSE before
    IN ended[Len(b)]

\* What a record with this content does, once it is unprotected.
Process(r, content) ==
    /\ read' = read \union {pos + 1}
    /\ UNCHANGED lost
    /\ IF r.type = "handshake"
         THEN LET b == hbuf \o content
                  x == Extracted(b)
                  used == IF x = <<>> THEN 0 ELSE Last(x)
                  had == Len(transcript["reader"])
              IN /\ hbuf' = SubSeq(b, used + 1, Len(b))
                 /\ transcript' = [transcript EXCEPT !["reader"] = @ \o SubSeq(b, 1, used)]
                 /\ ends' = [ends EXCEPT !["reader"] =
                               @ \o [i \in DOMAIN x |-> had + x[i]]]
         ELSE UNCHANGED <<hbuf, transcript, ends>>

\* Before it has keys, the reader takes a record as it is.
ReceivePlain(r) ==
    /\ key["reader"] = None /\ r.key = None
    /\ Process(r, r.content)
    /\ UNCHANGED <<cut, num>>

ReceiveProtected(r) ==
    /\ key["reader"] # None
    /\ r.key = key["reader"] /\ r.num = num["reader"]
    /\ Process(r, Stripped(r.content))
    /\ LET kept == Len(Stripped(r.content)) IN
         cut' = IF kept = Len(r.content) THEN cut
                ELSE cut \union {r.upto - Len(r.content) + kept + 1}
    /\ num' = [num EXCEPT !["reader"] = @ + 1]

\* A protected record that comes before the reader has keys is handed up as
\* application data, ciphertext as it is; any other one is skipped.
ReceiveLost(r) ==
    /\ IF key["reader"] = None THEN r.key # None
       ELSE r.key # key["reader"] \/ r.num # num["reader"]
    /\ lost' = lost \union {pos + 1}
    /\ UNCHANGED <<transcript, ends, read, hbuf, cut, num>>

\* One turn of the loop of receive_data, which goes on to the next record
\* whatever this one is.
Receive ==
    /\ pos < Len(stream)
    /\ pos' = pos + 1
    /\ LET r == stream[pos + 1] IN ReceivePlain(r) \/ ReceiveProtected(r) \/ ReceiveLost(r)
    /\ UNCHANGED <<writerVars, secret, key, historyVars>>

Next ==
    \/ \E e \in Parties : Derive(e) \/ Update(e) \/ Enable(e)
    \/ Compose \/ SendHandshake \/ SendData
    \/ Receive

Spec == Init /\ [][Next]_vars

(***************************************************************************)
(* Properties.                                                             *)
(***************************************************************************)

\* The records written under the key a party uses.
Under(e) == {i \in 1..Len(stream) : stream[i].key = key[e]}

\* The types; each end's record number counts the records it has written, or
\* read, under the key in use, unless it has enabled that key twice.
TypeOK ==
    /\ Len(ends["writer"]) <= MaxMsgs /\ off \in 0..Len(transcript["writer"])
    /\ Len(stream) <= MaxRecords /\ pos \in 0..Len(stream)
    /\ read \union lost = 1..pos /\ read \intersect lost = {}
    /\ \A e \in Parties : key[e].phase \in 0..2 /\ secret[e].phase \in {0, 2}
    /\ \A e \in Parties : again[e] \subseteq enabled[e] /\ (key[e] # None => key[e] \in enabled[e])
    /\ key["writer"] \notin {None} \union again["writer"] =>
         num["writer"] = Cardinality(Under("writer"))
    /\ key["reader"] \notin {None} \union again["reader"] =>
         num["reader"] = Cardinality(Under("reader") \intersect read)

\* However messages and records are cut against each other, and wherever keys
\* are changed, even inside a message, what the reader is handed is what the
\* writer composed, from the first message on - unless a record was lost or
\* its handshake data ended in zeros.
MessagesIntact ==
    lost = {} /\ cut = {} =>
        /\ IsPrefix(transcript["reader"], transcript["writer"])
        /\ IsPrefix(ends["reader"], ends["writer"])

\* A message is handed up with the record that completes it: none waits in the
\* buffer for a later one, and no application data overtakes it.
HandedUpAtOnce ==
    lost = {} /\ cut = {} /\ pos > 0 => Len(ends["reader"]) = WholeWithin(stream[pos].upto)

\* Under each key the reader reads a first part of what was written under it:
\* after one record that comes before its key or fails, none of that key is
\* accepted any more - whatever keys the reader enables, even one it has used,
\* and unless the writer has enabled that key twice.
PrefixPerKey ==
    \A i \in read, j \in lost :
        stream[i].key = stream[j].key /\ stream[i].key \notin again["writer"] => i < j

\* Two records have one key and one number only when the writer has enabled that
\* key twice: no other change of keys, between any two records, brings a nonce
\* back.
NonceFresh ==
    \A i, j \in 1..Len(stream) :
        i # j /\ stream[i].key = stream[j].key /\ stream[i].num = stream[j].num =>
            stream[i].key \in {None} \union again["writer"]

\* Zeros taken off handshake data do not go unnoticed: when the two ends come
\* to the same application secret, the messages the reader has been handed lost
\* none, although nothing compares the transcripts and what follows a gap
\* closes up behind it.
CutIsNoticed ==
    [][ \A e \in Parties :
          Derive(e) /\ secret'["reader"] = secret'["writer"] /\ lost = {} =>
              \A p \in cut : p > Len(transcript["reader"]) ]_vars
=============================================================================
