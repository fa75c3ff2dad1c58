# Post-Quantum-Safe TLS 1.3 relay chat: verification project

TLA+ models of the relay chat in `src/server.py` and `src/client.py` and of the
parts of the TLS 1.3 library under `src/src/tls` they use, with TLC instances
and TLAPS proofs. Paths below are relative to the directory that holds `src/`
and `tla/`; the library is `src/src/`.

## 1. The system

| component | state | operations | talks to |
|---|---|---|---|
| **Server** (`server.py`) | `running`, `clients` (client id → socket, handshake, two record managers) | `start`/`_accept_connections`, `_handle_client`, `_perform_tls_handshake`, `_handle_secure_messages`, `_disconnect_client`, `stop` | one daemon thread per connection, all sharing `clients`, the sockets and the record managers of the *other* clients, without a lock |
| **Client** (`client.py`) | `connected`, `socket`, two record managers | `connect`, `_perform_tls_handshake`, `_send_messages` (main thread), `_receive_messages` (daemon thread), `disconnect` (both) | its own server connection |
| **Handshake** (`handshake.py`, `hybrid_handshake.py`) | `state`, `transcript`, `shared_secret`, hellos, key schedule | `create_client_hello`, `process_client_hello`, `process_server_hello`, `get_handshake_keys`, `get_handshake_read_keys`; the messages behind the hellos, `add_to_transcript`, `create_finished`, `get_application_keys` | key schedule, X25519 and ML-KEM |
| **Record layer** (`record_layer.py`) | key, IV, `sequence_number`, handshake buffer | `enable_encryption`, `send_record`, `send_application_data`/`protect_record`, `receive_data`/`unprotect_record` | cipher suite |
| **Cipher suite** (`cipher_suites.py`) | key, IV, its own `sequence_number` (the one the nonce is made of) | `encrypt`, `decrypt`, `update_sequence_number` | AES-GCM |
| **Key schedule** (`key_schedule.py`, `foundation.py`) | the secrets, each `None` until derived | `derive_*`, `get_*_keys` | HKDF |
| PQ algorithms and prototypes (`pq_algorithms.py`, `pq_handshake.py`, `pq_extensions.py`) | key pairs | key generation, (de)encapsulation, combiners | kyber library |
| Configuration, logging, tests, benchmarks | – | – | – |

What happens in a session: the client connects and sends ClientHello; the
handler thread reads it with one `recv`, answers with ServerHello, makes a send
and a receive record manager and enters the client into `clients`. From then on
every other handler relays to it. There is no further handshake message: both
ends use the handshake traffic keys for the chat.

What is hard in this code:

* several handlers use one recipient's record manager and socket at once
  (number read, number advanced, record written: three separate steps);
* relayed records may reach a client before it has read ServerHello;
* sockets block, so handlers can wait for clients and thereby for each other;
* `stop()` in the main thread and handlers disconnect the same client, each in
  three steps, and handlers register clients behind `stop()`'s back;
* a client's entry is named by address and port, which may come back before the
  old handler has cleaned up;
* both threads of the client program may run `disconnect()`, at any moment of the
  other's `send()`, `recv()` or `input()`;
* handshake messages are cut into records at will, the buffer they are put
  together in outlives changes of keys, and the two ends change keys and extend
  their transcripts by calls of their own;
* TCP cuts and joins what the code takes for one message;
* a record that does not decrypt is skipped, silently and without recovery.

What makes the components correct:

* relay: nobody sees a message twice or one sender's messages out of order,
  whatever the threads do; nothing is lost unless relays overlap; a blocked relay
  comes free; one target's failure costs the other targets nothing;
* server: no entry and no socket outlives its handler; after an
  interrupt nobody is served who came behind it, and every session ends; departures are
  noticed;
* handshake: a client comes up only against a server of its own mode that has had
  the whole ClientHello; the keys match exactly when the ServerHello was read alone;
  a failure at one end ends the other;
* client: what the user typed is on the connection or its loss is explained, a line
  that is too long for a record included; no
  record number is skipped; the end of the connection is noticed, and once the
  program is gone nothing more comes from it;
* record layer: the payloads of one direction form a FIFO however the stream is
  cut; handshake messages come out whole and in order over any change of keys; a
  number comes back under a key only when the number wraps or the caller enables that
  key again, which the code does not prevent;
* key schedule: ends that come to the same application secret have the same
  messages.

`PROJECT.json` lists each hazard with its line and the properties that cover it.

## 2. Modules

| module | models | kind |
|---|---|---|
| `Broadcast` | what users are promised: a best-effort broadcast | abstract specification |
| `RelayLink` | all relays to **one** recipient, its close, and the recipient's client | component |
| `RelayLinkProofs` | theorems about `RelayLink` | proofs |
| `RelayServer` | the whole server and all clients; implements `RelayLink` for every recipient, and `Broadcast` | composition |
| `RelayServerProofs` | theorems about the server by itself | proofs |
| `RelayServerRefines` | that it implements `RelayLink` and `Broadcast` | proofs |
| `RelayServerRecipient` | what `RelayLinkProofs` then says of any one client of the server | proofs |
| `Channel` | what the record layer promises: an ordered channel for payloads | abstract specification |
| `RecordLayer` | one direction of a connection with one writer: framing, numbering, protection | component |
| `RecordLayerProofs` | theorems about `RecordLayer` | proofs |
| `Handshake` | one connection's handshake, both modes, and the first relayed records | component |
| `HandshakeProofs` | theorems about `Handshake` | proofs |
| `Peer` | what the server may expect of a client program | abstract specification |
| `ClientApp` | one client program, its two threads and its user; implements `Peer` | component |
| `ClientAppProofs` | theorems about `ClientApp` | proofs |
| `Flight` | the messages behind the hellos, application keys and key updates, through the record manager into the peer's transcript | composition of handshake, key schedule and record layer |
| `FlightProofs` | theorems about `Flight` | proofs |
| `RelayLinkMC`, `RelayServerMC` | symmetry sets for TLC | model checking |

### RelayLink

`Encrypt(h)` is `send_application_data` up to the ciphertext: the nonce is built
(`stamp`) from `cipher_suite.sequence_number` (`seq`). `Bump(h)` is
`update_sequence_number`. `EnterSend(h)` is the call of `socket.send` (a closed
socket raises, the loop logs it and goes on), `FinishSend(h)` its completion when
there is room, `SendError(h)` its failure when the peer is gone. The program
counter `pc[h]` holds the four places at which a handler can lose the interpreter
in between: CPython switches threads at calls, loop edges and system calls, so
`self.sequence_number += 1`, or a membership test together with the lookup
behind it, is one step, while building the nonce and advancing the number are
two. `Close` is `_disconnect_client`; `close()` does not wake a thread that is
already inside `send()`, whose record still goes out. At the client, `FirstRecv`
is the one `recv(4096)` for ServerHello, with `k` relayed records behind it: for
`k > 0` they become part of the transcript and the client is `"deaf"`, it holds
other keys. `Receive` takes one record off the stream and shows it when its
number is the expected one; otherwise it skips it. `Quit` is every way a client
ends.

Abstractions: a record is its sender, the number of the message and its record
number; decryption succeeds exactly when keys and record number agree. Records
are written whole. A handler may skip message numbers (`n > msg[h]`): messages
relayed before the recipient was registered, or too long for a record. `wire`,
`shown` and `overlap` are history variables. `TypeOK` has the recipient's record number
count what it has displayed, which a client that advanced it over a record it could not
decrypt would break.

### RelayServer

The handler's program counter `hpc[h]` follows `_handle_client` and what it calls (the list
is in the module's header), `mpc` the main thread: accept loop, then `stop()` after an
interrupt and the end of the process behind it. `registry` is the key set of `self.clients`.
The relay steps are those of `RelayLink`, with the target in `tgt[h]` and the rest of the
snapshot in `targets[h]`; the snapshot is a set, so every order of targets is covered. The
except clause of `_handle_client` deletes (`Except`) and closes (`ExceptClose`) in two
steps, like `_disconnect_client`. `Exit` is the return of `main()` behind `stop()`, or the
`KeyError` that leaves it: the handlers are daemon threads (server.py:59), so from then on
none of them takes a step, wherever it is, and the system closes the sockets.
`ImplementsLinks` instantiates `RelayLink` for every client `r` with the other clients'
handlers, and says that every step of the server is, for every recipient, a step of its link
or leaves the link alone. `ImplementsBroadcast` maps `csent` and `shown` to `Broadcast`.

Abstractions: a handshake is accepted or not (`HelloOk`, `HelloFail`; the
`Handshake` module has the detail). A message of a client is received in any
batching; the client's own direction has a single writer and reader and is not
bounded. What a deaf client sends does not decrypt at the server, which skips it,
and is left out. A line that is too long for a client's record, which ends the client, is a
`Quit`; that a message may be too long with the relay's prefix is left out here (`RelayLink`
has the gap in the message numbers, `RecordLayer` the refusal). The main thread is interrupted at
most once.

Client ids. `registry` holds connections, at most one under each id. `twins` is a set of
connections with one and the same id (address and port), fixed at the start: none, or
`Reusers`. `Same(h)` are the connections with the id of `h`, `Entered(h)` the one of
them that is entered. A test, a lookup or a deletion by id therefore concerns whatever
is entered under the id, be it another connection: `Register` replaces it, `Cleanup`
finds it, `CleanupClose` closes it, `CleanupDel` deletes it, perhaps without having
closed it. `Accept` lets a twin come only when the client before it has gone (TCP does
not allow it earlier) and, as a bound, its handler is past the handshake. `Collect` is the
interpreter's closing a socket object nothing refers to any more. The run shows what is
left in the presence of twins: the old handler's cleanup can close and delete the new
connection's entry, whose client is then cut off, so `ServedIsEntered` has to except
them; but no entry outlives its thread, and an interrupt still ends every session.

### Handshake

Streams are counted in units: a hello is a head of one unit and a key share of
one, two or three keys of two units each (X25519; with ML-KEM key; with
ciphertext), `key_share` being the last extension on the wire, so a buffer may end
anywhere, inside a key too. `ShareAccepted` says what each mode makes of a share
of a given length. A traffic key is a term: the secrets, the transcript as the
number of units of each stream it holds, and the label. Keys of different terms
differ, keys of equal terms are equal; the cryptography is ideal.

### RecordLayer

The writer is the client, or the server towards a client as long as its handlers relay one
at a time (`RelayLink` has the rest). `Send` is `send_application_data` and the write to the
socket: `Write(p)` builds the record, `Refuse(p)` is the exception of packing a length that does
not fit the 16-bit field, raised before anything is encrypted. The two writers differ in what
that does to them: it takes the client out of its loop and ends the connection
(client.py:168-172), whereas the relay logs it and goes on with the next target or message
(server.py:187). `catches` says which of them it is, `ended` that the client has left. What it
had written before still arrives; that the close may reset the connection under it is left
out. The stream is counted in units (two for a
header, one for type and tag, one per unit of payload): `inflight` units are written
and not yet received, `buffered` units are in the receiver's buffer. `Recv` returns any
number of them; it is only called when `receive_data` has taken every whole record out
of the buffer (`~Complete`). `Unprotect` is one turn of the loop of `receive_data`:
one whole record is cut off, decrypted if keys and number agree, and returned without
type and without zeros at its end (`Stripped`). The record number is the one of the
cipher suite; the record layer keeps a second one for a nonce that is computed and not
used. `sameKeys` is false for a client that derived other keys (see `Handshake`). A
stream that begins in the middle of a record, because ServerHello was read with a part
of one, is left out: the keys differ then, and nothing decrypts anyway.

### ClientApp

`pc` holds the place of each thread. CPython switches threads at calls, loop edges and
system calls, so in `disconnect()` the flag and the test of the socket with the lookup
behind it are one step (`Bye`), the close (`Close`) and the assignment of `None` (`Clear`)
two more; either thread may be at any of them. (The compiled files beside the source,
`__pycache__/*.cpython-313.pyc`, show the interpreter used: 3.13.) `EnterSend` is the call
of `send()`: no socket, or a closed one, raises (`Fail`); `FinishSend` waits for room; a
`close()` by the other thread wakes neither `send()` nor `recv()`. `Recv` returns any number
of records that have arrived, which `Show` prints one at a time; what is undecipherable is
`RelayLink`'s subject. `Text` is a line with its encryption, which spends a record number;
`TextRefused` is a line `send_application_data` raises on, too long for a record or
impossible to encode: no number is spent, and the program logs the error and disconnects
like after a failed send (`Fail`). `Interrupt` is Ctrl-C where the main thread waits. The
second `disconnect()` of `main()` finds no socket and is left out. `Exit` ends the daemon
thread wherever it is. The server's end sends, reads and closes when it likes.

`ImplementsPeer` maps the program to `Peer`: `hello` until the receive thread is started,
`down` when the socket is closed with no thread inside a call on it and nothing left to
print, `up` in between. `RelayServer` gives a client one state (`cst`) where the program has
two threads and three flags; `ImplementsPeer` says that it may, and `EndNoticed` that the
fairness it assumes of a client (`SeesEnd`) is that of the program. In `RelayServer`
receiving and showing are one step, and what comes with ServerHello is taken with it.

### Flight

A message is a type, a length and a body of units that stand for bytes, zero or not; one
shape stands for each kind of message, those that end in zeros included (EncryptedExtensions
without extensions, Certificate with or without entries, a Finished whose digest ends in a
zero). `Compose` adds a message to the writer's transcript, `SendHandshake` puts any number
of the following units into a record, so that a record holds several messages or a part of
one, `SendData` sends application data in between. `Receive` is one turn of the loop of
`receive_data`: the record is unprotected, stripped of zeros at its end, appended to the
handshake buffer, and the whole messages are taken out (`Extracted`) and added to the
reader's transcript. `Derive`, `Update` and `Enable` are the calls with which each end makes
and changes its keys; a key is the term it is derived from, the transcript included.
`Enable` takes any key of those the end has come by (`Held`: of the handshake, of its
application secret, of what that was before its updates), the one in use and earlier ones
included, because `enable_encryption` asks nothing of its keys: it makes a new cipher, and
the record number starts at 0. The history variables `enabled` and `again` keep which keys
each end has enabled, and which of them more than once. `NonceFresh` and `PrefixPerKey` are
stated with `again`: a nonce does come back under a key the writer has enabled twice, and a
reader may then take a later record for an earlier one. The chat programs make none of these
calls; the model is of what the library does to any caller.

Named bounds: each message at most once and in the order of a flight; one derivation of the
application secret at each end, when it uses handshake keys; an update when the secret is in
use, at most `MaxUpdates` at an end; at most `MaxAgain` keys, of both ends together, that
are enabled more than once (any number of times), and with the first of them one message and
one record fewer (`NoneAgain`). `MaxLag` = 1 loses no behaviour of either end: the writer
does nothing that depends on the reader, so each of its steps can be put off until the
reader needs the next record.

## 3. Runs

Deadlock is not checked anywhere: the system may stop, when everybody has left or
has nothing more to say.

| run | instance | what it shows |
|---|---|---|
| `relay_link` | 2 handlers, 2 messages each, buffer of 1 record | `PerSenderOrder`, `NoLossWithoutOverlap`, `LossIsPermanent`, `RelayedIsShown`, `RelayFinishes` |
| `relay_shown` | the same, buffer 2 | **violated**: `EveryRecordShown` (report.txt:501) |
| `server_relay` | 3 clients, 2 of them send 1 message, the third may leave (so the order of one sender's messages is `relay_link`'s and the theorem `IsBroadcast`'s) | `OwedDelivered`, `ImplementsLinks`, `ImplementsBroadcast` |
| `server_stop` | 2 clients, with one id or two, both may leave, 1 sends, one interrupt | `NothingLeaks`, `ServedIsEntered`, `NotServedAfterStop`, `InterruptEndsAll` |
| `server_live` | 2 clients, both send 2 messages and may leave | `MessageHandled`, `DepartureNoticed` |
| `server_stalled` | 2 clients, one sends 3 messages, the other stops reading | **violated**: `SessionServed` (report.txt:479) |
| `server_keyerror` | as `server_stop` | **violated**: `StopCompletes` (server.py:206, 210) |
| `handshake` | every mode pair, every cut, up to 2 relayed records | `ModesAgree`, `WholeHellos`, `KeysMatchIffExact`, `HandshakeEnds`, `FailureEndsBoth` |
| `record_layer` | both kinds of writer, 4 calls, payloads of 1 to 3 units of which 3 are too long, every number of zeros at the end, 3 record numbers | `InStep`, `FreshUntilWrap`, `ImplementsChannel`, `AllArrive` |
| `handshake_keys` | up to 1 relayed record | **violated**: `BothDeriveIdenticalKeys` (report.txt:499) |
| `client_app` | 3 lines typed, 2 records from the server, buffer of 1 record | `NoGap`, `LossExplained`, `ReaderAlive`, `ImplementsPeer`, `EndNoticed`, `ProgramEnds` |
| `flight` | 2 messages of 4 kinds, 3 records, 1 update at each end; or, with a key enabled again, 1 message and 2 records | `MessagesIntact`, `HandedUpAtOnce`, `PrefixPerKey`, `NonceFresh`, `CutIsNoticed` |

Why the bounds suffice. Two handlers are enough for every race on one recipient
(equal numbers, swapped numbers, a number skipped by a failed send), and two
messages each for what follows a lost number; a third handler adds no new pair and is
covered for the properties that are proved. Buffer 1 makes `send` block as soon as
one record is unread. Three clients are the least with two senders and one common
target that fails; two suffice for `stop()`, which treats clients one by one, with
the second one registering behind its snapshot; two senders that are each other's
targets are the least for mutual blocking. In the handshake two units per key allow
every kind of cut. In the record layer, 4 records with 3 numbers wrap once and let a
record follow the wrap; two header units and one for type and tag allow cuts in and
between all parts, and up to 4 records can be in one buffer. In the client a third line
follows one that failed and one that was blocked behind an unread record. In a flight two
messages can share a record or a cut, three records let a message be cut twice or have
data or a change of keys inside it, and let a record follow a lost one.
Where an end enables a key again, two records are enough for the second to repeat the nonce of
the first, and for a reader to accept the second behind the loss of the first.

The symmetry sets exchange handlers, or senders, that no action and no property
tells apart, and are used in runs without liveness only.

### Fairness

Weak fairness of each handler thread as long as there is the process, and of `stop()` with
the end of the process behind it: the operating system runs threads that can run, and every
wait in the model is a guard of its own (room in the buffer, data or end of file to read).
Weak fairness of a client's receive thread and of its noticing the end of the connection:
that thread does nothing but read. A client program sends its ClientHello as soon as it is
connected, so `"hello"` of a handler is not a state to be stuck in; a peer that connects and
stays silent is a hazard without a promise in the code (no timeout). Nobody is assumed to
connect, send, leave or interrupt. `StalledSpec` drops the fairness of the clients: a
suspended client process. Nothing is assumed of a handler once `main()` has returned, and
`InterruptEndsAll` does not rest on them: that the sessions end is then the system's closing
the sockets, and the clients' noticing it. In `RecordLayer`: what is written arrives, and
the reading thread runs. In `ClientApp`: both threads run, and the end of the connection
reaches a thread that waits for ServerHello; the user need not do anything, except in
`ProgramEnds`, whose hypothesis `WF_vars(User)` says that a user who is asked for a line in
the end types one: without it the program stays in `input()` for ever, on a connection that
is gone. `Flight` has no fairness.

## 4. What the violated properties show

1. Without a lock around `send_application_data` and `send`, overlapping relays use
   one record number twice or put numbers out of order on the stream. The recipient
   discards what it does not expect, and from then on everything (`LossIsPermanent`).
2. A client that does not read holds up every handler that relays to it, and the
   sessions those handlers serve.
3. A handler can delete its entry between the close and the deletion in `stop()`:
   the `KeyError` ends `stop()`. The remaining clients and the listening socket stay open
   until the process ends, which it does right behind (`InterruptEndsAll`).
4. A record relayed at once after registration can be read together with ServerHello;
   the handshake then completes with different keys at both ends.

More facts are part of what the passing properties say, not runs of their own. A
failed authentication is logged and skipped, the connection stays up, although
report.txt:473 says it is terminated (`Receive` in `RelayLink`, `ReceiveLost` in
`Flight`; `LossIsPermanent` and `PrefixPerKey` state what follows). Nothing is fragmented,
although report.txt:471 says that messages are cut into records of at most 16,384 bytes: a
message that does not fit the length field of one record is refused (`Refuse`); at the client
the line is lost and the connection ends (`LossExplained` of `ClientApp`), at the relay the
message is lost for every target. The zeros at the end of
a payload are taken for padding and removed, although none is ever added (`Stripped`;
the `Channel` that `RecordLayer` implements delivers payloads without them, and
`CutIsNoticed` says what becomes of handshake messages that end so). With a single
writer (for several see 1.) nonces repeat in two ways, and the properties say that there is no
third: behind a wrap of the record number, which record_layer.py:78-80 admits (`FreshUntilWrap`; `InStep` says that both ends wrap at the same
record), and when a caller enables used keys (`NonceFresh`; the chat programs enable each key
once). And the cleanup for
a connection that has gone can take down one that has come under the same address and
port (`ServedIsEntered`).

## 5. Proofs

`RelayLinkProofs` holds for any set `Handlers`, any `MaxMsg` and `SendBuf` in
`Nat \ {0}` (the assumptions `MaxMsgAssumption`, `SendBufAssumption`):

* `TypeCorrect`: `Spec => []TypeOK`. The inductive invariant `TypeInv` adds
  `Carrying`: a handler in a relay holds a message number in `1..MaxMsg`.
* `Order`: `Spec => []PerSenderOrder`. `PerSenderOrder` speaks of the screen
  only; `OrderInv` follows a message from the handler over the stream to the screen:
  each place is ordered per sender, the screen is older than the unread stream, and
  everything is older than the message the handler holds.
* `NoLoss`: `Spec => []NoLossWithoutOverlap`. `LossInv` says that without overlap at
  most one handler is in the relay path, that record *i* of the stream has number
  *i − 1*, and that `seq` is the length of the stream, or one more while that
  handler has advanced it; a closed socket breaks the numbering for good, but then
  nothing is written any more except a send already under way.
* `PermanentLoss`: `Spec => LossIsPermanent`, from `TypeInv` and the step lemma
  `LostStep`: later nonces come from a counter that has passed the expected number.

`RecordLayerProofs` holds for every `MaxLen`, `MaxField`, `MaxCalls` in `Nat` and
`SeqLimit` in `Nat \ {0}`, so for the real 65535 and 2^64:

* `TypeCorrect`: `Spec => []TypeOK`; `NeverOutOfStep`: `Spec => []InStep`; `NumbersFresh`:
  `Spec => []FreshUntilWrap`;
* `IsChannel`: `Spec => ImplementsChannel`, the refinement of `Channel`. `InStep` gives
  that the record at the head of the stream decrypts; the invariant `Carried` that its
  payload is the next one to be returned; `StripAppend` that stripping commutes with the
  append of a payload. All three are in the one inductive invariant `Inv`.

`ClientAppProofs` holds for every `MaxLines`, `MaxIn` in `Nat` and `SendBuf` in
`Nat \ {0}`:

* `TypeCorrect`, `Gapless` (`NoGap`), `LossIsTold` (`LossExplained`), `SomeoneReads`
  (`ReaderAlive`), for refused lines too, all from one inductive invariant `Inv`. None of
  the four is inductive: what a failed send means depends on who closed the socket.
  `Threading` and `Flags` say how the places of the two threads and the flags go together,
  `Cause` that as long as the main thread is at work only the receive thread gives the
  connection up, and only because the server has closed it, `Books` that all lines but the
  one in hand are on the connection until that thread leaves its loop.
* `IsPeer`: `Spec => ImplementsPeer`, the refinement of `Peer`. `GoneForGood` and
  `GreetingEnds` give that the mapped state only goes forward, `OneThingAtATime` that a step
  writes, takes or shows at most one thing and only while the program is up.

`RelayServerProofs` holds for every set `Clients`, `Senders`, `Quitters` and `Reusers`
subsets of it, `MaxMsg` and `SendBuf` in `Nat \ {0}`, interrupted or not:

* `TypeCorrect` (`TypeOK`): `TypeInv` adds to the types that one connection at most is
  entered under an id, that `stop()` and each handler work on one other connection at a
  time, and that a message is counted when its fan-out is over.
* `LeakFree` (`NothingLeaks`), `Unserved` (`NotServedAfterStop`) and `Served`
  (`ServedIsEntered`). None is inductive: whether a thread may end depends on who has
  closed its socket. `LeaveInv` says that a thread that has not registered or is done has no
  entry, that a connection with an id of its own loses its entry only behind its
  socket, and that whatever is entered after an interrupt is in `stop()`'s snapshot or on its
  own way out.
* `Owed` (`OwedDelivered`): `OwedInv` follows an owed message from the rest of the snapshot
  over the nonce in hand to the stream, or to the end of the recipient.

`RelayServerRefines`, from the same assumptions:

* `IsLinks`: `Spec => ImplementsLinks`. For each recipient `r` every action of the server is
  a step of `RelayLink` or leaves what it is mapped from alone (`LinksFollow`). The guard
  `n > msg[h]` of `Encrypt` is what needs the invariant: `RelayInv` says that a target still
  in the snapshot has had only earlier messages, and that nobody is its own target.
* `IsBroadcast`: `Spec => ImplementsBroadcast`. `OrderInv` is the argument of `Order` for
  all recipients at once: screen before stream before the message in hand, per sender.

`RelayServerRecipient` instantiates `RelayLinkProofs` for any one client `R` under the
mapping of `IsLinks`: `CaughtUpUntilOverlap` and `LostForGood` are `NoLoss` and
`PermanentLoss` of a whole server, with no proof about the server but the refinement.

`HandshakeProofs` holds for every `MaxRecords` in `Nat`: `TypeCorrect` (`TypeOK`), `SameMode`
(`ModesAgree`), `HellosWhole` (`WholeHellos`), `MatchIffExact` (`KeysMatchIffExact`). One
inductive invariant `Inv` says what each end has derived, from how much of the other's
stream. An end tests the length of a key share and nothing else; `Agreement` is the
arithmetic by which the accepted lengths of the two modes exclude each other and leave no
hello that is not whole.

`RecordLayerProofs` also has `AlwaysFramed`: the buffer continues where the last whole record
ended (`Framed`), with the right keys or not; the runs see that in `ImplementsChannel` and
`AllArrive`. And `FlightProofs` holds for every
`MaxMsgs`, `MaxRecords`, `MaxUpdates`, `MaxAgain` in `Nat` and `MaxLag` in `Nat \ {0}`:

* `NoncesFresh` (`NonceFresh`), `PrefixOfEachKey` (`PrefixPerKey`), `TypeCorrect` (`TypeOK`,
  with the count of records behind each record number), with any calls of
  `enable_encryption`, of used keys too. `Numbered` says that every record's key is one the
  writer has enabled, and that within a key it has enabled once (`Once`) the numbers rise
  along the stream; so a number that starts again starts under a key no record has, or under
  one of `again`. `Expected` says the like of the reader, and that, under a key the writer
  has not enabled twice, the reader's number is one more than that of what it read last
  under its key, and no more than that of anything it has not read.
* `Intact` (`MessagesIntact`) and `AtOnce` (`HandedUpAtOnce`). `Pieces` says that the
  records are the writer's transcript cut up, `Parsed` that what the reader has been handed
  and what it buffers are together the first part of it, `Handed` that the one is whole
  messages and the other is not one. That a text has one parse only (`ChainsAgree`), that it
  goes on behind whole messages as if it began there (`ChainJoin`), and that
  `_extract_handshake_messages` finds all of it in a buffer of any length (`Extracts`) are
  lemmas.

`Units` and the loop in `Extracted` are recursive functions of the state or of an argument. The
library's theorem of induction takes an operator as its parameter, which no installed
prover instantiates; induction is therefore derived from the well-foundedness of `<`, over a
set of numbers instead of a predicate (`NatInSet`, `Induction`), and so is that the functions
are what their definitions say (`TotalUnfolds`, `Unfolds`).

Model-checked only: all liveness properties (fairness and ENABLED are out of the
prover's reach), and `CutIsNoticed` of `Flight`: its invariant has to say where
the reader's shortened text first differs from the writer's, and that a parse that is off
by some zeros does not come back into step.

## 6. Not modelled, and why

* the cryptographic primitives (ideal) and the byte layout of messages;
* finished keys and the exporter and resumption secrets: the first only decide whether
  `create_finished` raises, and nothing reads a Finished or the other two;
* `receive_records`, a second reading loop that nothing calls;
* `pq_handshake.py`, `pq_extensions.py`: nothing calls them, and what they keep does not
  reach the wire (`hybrid_secrets` is assigned nowhere but with `None`, so
  `derive_hybrid_secret` always returns `None`); the other combiners and ChaCha20-Poly1305:
  used by tests only, without state;
* configuration (`max_clients` is never read), logging, tests, benchmarks;
* the interpreter's shutdown around the client's daemon thread;
* a peer that speaks another protocol.

## 7. Plan

Built: `RelayLink` (the core) → its proofs → `Broadcast`, `RelayServer` → `Handshake`
→ `Channel`, `RecordLayer` → its proofs → `Peer`, `ClientApp` → its proofs → client ids in
`RelayServer` → `Flight` → proofs of `RelayServer` and its refinements, `Handshake`, `Flight`.

Next proof: `CutIsNoticed` of `Flight`.
