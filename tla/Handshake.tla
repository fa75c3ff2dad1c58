------------------------------ MODULE Handshake ------------------------------
(***************************************************************************)
(* The two-message handshake of one connection: TLSHandshake and           *)
(* HybridTLSHandshake at both ends, _perform_tls_handshake of server.py    *)
(* and client.py around them, and the stream of relayed records that       *)
(* starts as soon as the server has registered the client.                 *)
(*                                                                         *)
(* Each end calls recv(4096) once for the peer's hello and takes whatever  *)
(* it returns for the hello: TCP may return less of it, or more than it.   *)
(* The two byte streams are counted in units: a hello is a head followed   *)
(* by its key share, every key or ciphertext being two units, so that a    *)
(* buffer can end inside one; a relayed record is two units as well.       *)
(*                                                                         *)
(* Keys are terms: the secrets that went into them, the transcript and the *)
(* label of the direction.  A transcript is how many units of each stream  *)
(* it holds.  Two different terms are two different keys.                  *)
(***************************************************************************)
EXTENDS Naturals

CONSTANT MaxRecords   \* bound: records relayed to the client

ASSUME MaxRecordsAssumption == MaxRecords \in Nat

VARIABLES
    cmode, smode,  \* the --cipher-suite argument of each program
    cpc,           \* the client: start, wait, up or down
    spc,           \* the handler: hello, answer, keys, ready, registered, closed
    c2s, s2c,      \* units each end has sent
    sgot, cgot,    \* units each end's first recv() returned
    ssecret,       \* what the server's TLSHandshake derived, None before
    skeys, ckeys   \* the keys of the two record managers, None before

vars == <<cmode, smode, cpc, spc, c2s, s2c, sgot, cgot, ssecret, skeys, ckeys>>

Mode == {"classical", "hybrid"}

None == [dh |-> {}]

Head == 1
Key == 2
RecordLen == 2

\* The key_share extension: X25519, then ML-KEM, then the server's ciphertext.
ShareLen(mode, by) ==
    IF mode = "classical" THEN Key
    ELSE IF by = "client" THEN 2 * Key ELSE 3 * Key

HelloLen(mode, by) == Head + ShareLen(mode, by)

\* Mutants of the next operator: a hybrid end falls back to X25519 when there
\* is no ML-KEM part; an X25519 key is not checked for its length.
ShareAcceptedFallback(mode, by, len) ==
    IF mode = "classical" THEN len = Key ELSE len >= Key
ShareAcceptedUnchecked(mode, by, len) ==
    IF mode = "classical" THEN len > 0 ELSE len >= ShareLen("hybrid", by)

\* What an end makes of the share it was sent.  The X25519 code takes the
\* whole entry and wants exactly one key; the hybrid code slices the entry at
\* fixed offsets and wants every slice whole.
ShareAccepted(mode, by, len) ==
    IF mode = "classical" THEN len = Key ELSE len >= ShareLen("hybrid", by)

\* The part of a hello that a buffer of n units holds, without its head.
ShareIn(mode, by, n) ==
    IF n >= HelloLen(mode, by) THEN ShareLen(mode, by) ELSE n - Head

\* The secret of the key schedule: the X25519 exchange of the two ephemeral
\* keys and, in hybrid mode, the ML-KEM secret the server encapsulated to the
\* client's key; and the transcript the traffic secrets are bound to.
Secret(mode, kem, ch, sh) ==
    [dh |-> {"client", "server"},
     kem |-> IF mode = "hybrid" THEN kem ELSE {},
     ch |-> ch,
     sh |-> sh]

ServerEncapsulated == {"server to client"}

Traffic(secret, label) == [secret |-> secret, label |-> label]

\* Mutant: the server uses the client's label to write and its own to read.
ServerKeysSwapped(secret) ==
    [write |-> Traffic(secret, "c hs traffic"), read |-> Traffic(secret, "s hs traffic")]

\* get_handshake_keys writes with one's own label, get_handshake_read_keys
\* reads with the peer's.
ServerKeys(secret) ==
    [write |-> Traffic(secret, "s hs traffic"), read |-> Traffic(secret, "c hs traffic")]
ClientKeys(secret) ==
    [write |-> Traffic(secret, "c hs traffic"), read |-> Traffic(secret, "s hs traffic")]

Init ==
    /\ cmode \in Mode
    /\ smode \in Mode
    /\ cpc = "start"
    /\ spc = "hello"
    /\ c2s = 0 /\ s2c = 0
    /\ sgot = 0 /\ cgot = 0
    /\ ssecret = None
    /\ skeys = None
    /\ ckeys = None

(***************************************************************************)
(* Mutated operations: plausible bugs, each of which some property below   *)
(* must notice.  They are not part of the specification.                   *)
(***************************************************************************)

\* After an unusable ClientHello the handler ends without closing the socket.
ServerRecvNoClose ==
    /\ spc = "hello"
    /\ \E n \in 1..c2s :
        /\ sgot' = n
        /\ IF ShareAccepted(smode, "client", ShareIn(cmode, "client", n))
             THEN /\ spc' = "answer"
                  /\ ssecret' = Secret(smode, ServerEncapsulated, n, HelloLen(smode, "server"))
             ELSE UNCHANGED <<spc, ssecret>>
    /\ UNCHANGED <<cmode, smode, cpc, c2s, s2c, cgot, skeys, ckeys>>

\* The client is registered before ServerHello has been sent.
RelayEarly ==
    /\ spc \in {"answer", "registered"}
    /\ s2c < HelloLen(smode, "server") + MaxRecords * RecordLen
    /\ s2c' = s2c + RecordLen
    /\ UNCHANGED <<cmode, smode, cpc, spc, c2s, sgot, cgot, ssecret, skeys, ckeys>>

\* The message loop does not end when the client does.
ServerLeaveNever ==
    /\ spc = "registered"
    /\ FALSE
    /\ UNCHANGED vars

(***************************************************************************)
(* The server.                                                             *)
(***************************************************************************)

\* recv(4096) returns n units of the ClientHello; process_client_hello parses
\* the share, computes the shared secret, serialises ServerHello into the
\* transcript and derives the traffic secrets - or gives up, and the handler
\* closes the socket.
ServerRecv ==
    /\ spc = "hello"
    /\ \E n \in 1..c2s :
        /\ sgot' = n
        /\ IF ShareAccepted(smode, "client", ShareIn(cmode, "client", n))
             THEN /\ spc' = "answer"
                  /\ ssecret' = Secret(smode, ServerEncapsulated, n, HelloLen(smode, "server"))
             ELSE spc' = "closed" /\ UNCHANGED ssecret
    /\ UNCHANGED <<cmode, smode, cpc, c2s, s2c, cgot, skeys, ckeys>>

\* The client is gone before the ClientHello arrived.
ServerEOF ==
    /\ spc = "hello"
    /\ cpc = "down"
    /\ spc' = "closed"
    /\ UNCHANGED <<cmode, smode, cpc, c2s, s2c, sgot, cgot, ssecret, skeys, ckeys>>

\* client_socket.send(server_hello_data)
ServerSend ==
    /\ spc = "answer"
    /\ spc' = "keys"
    /\ s2c' = HelloLen(smode, "server")
    /\ UNCHANGED <<cmode, smode, cpc, c2s, sgot, cgot, ssecret, skeys, ckeys>>

\* It raises when the client has reset the connection.
ServerSendError ==
    /\ spc = "answer"
    /\ cpc = "down"
    /\ spc' = "closed"
    /\ UNCHANGED <<cmode, smode, cpc, c2s, s2c, sgot, cgot, ssecret, skeys, ckeys>>

\* The two record managers get their keys.
ServerEnable ==
    /\ spc = "keys"
    /\ spc' = "ready"
    /\ skeys' = ServerKeys(ssecret)
    /\ UNCHANGED <<cmode, smode, cpc, c2s, s2c, sgot, cgot, ssecret, ckeys>>

\* self.clients[client_id] = ...: other handlers may relay from here on.
ServerRegister ==
    /\ spc = "ready"
    /\ spc' = "registered"
    /\ UNCHANGED <<cmode, smode, cpc, c2s, s2c, sgot, cgot, ssecret, skeys, ckeys>>

\* Another client's handler relays a message.
Relay ==
    /\ spc = "registered"
    /\ s2c < HelloLen(smode, "server") + MaxRecords * RecordLen
    /\ s2c' = s2c + RecordLen
    /\ UNCHANGED <<cmode, smode, cpc, spc, c2s, sgot, cgot, ssecret, skeys, ckeys>>

\* The message loop reads end of file or an error and disconnects the client.
ServerLeave ==
    /\ spc = "registered"
    /\ cpc = "down"
    /\ spc' = "closed"
    /\ UNCHANGED <<cmode, smode, cpc, c2s, s2c, sgot, cgot, ssecret, skeys, ckeys>>

(***************************************************************************)
(* The client.                                                             *)
(***************************************************************************)

ClientSend ==
    /\ cpc = "start"
    /\ cpc' = "wait"
    /\ c2s' = HelloLen(cmode, "client")
    /\ UNCHANGED <<cmode, smode, spc, s2c, sgot, cgot, ssecret, skeys, ckeys>>

\* recv(4096) returns n units of the server's stream and all n are taken for
\* ServerHello.  A share that does not parse leaves the secrets unset, and
\* deriving keys from them raises.
ClientRecv ==
    /\ cpc = "wait"
    /\ \E n \in 1..s2c :
        /\ cgot' = n
        /\ IF ShareAccepted(cmode, "server", ShareIn(smode, "server", n))
             THEN /\ cpc' = "up"
                  /\ ckeys' = ClientKeys(Secret(cmode, ServerEncapsulated, c2s, n))
             ELSE cpc' = "down" /\ UNCHANGED ckeys
    /\ UNCHANGED <<cmode, smode, spc, c2s, s2c, sgot, ssecret, skeys>>

\* End of file or a reset instead of ServerHello.
ClientEOF ==
    /\ cpc = "wait"
    /\ spc = "closed"
    /\ cpc' = "down"
    /\ UNCHANGED <<cmode, smode, spc, c2s, s2c, sgot, cgot, ssecret, skeys, ckeys>>

\* The user interrupts the client, at any time.
ClientQuit ==
    /\ cpc # "down"
    /\ cpc' = "down"
    /\ UNCHANGED <<cmode, smode, spc, c2s, s2c, sgot, cgot, ssecret, skeys, ckeys>>

ServerStep ==
    \/ ServerRecv \/ ServerEOF \/ ServerSend \/ ServerSendError
    \/ ServerEnable \/ ServerRegister \/ ServerLeave

ClientStep == ClientSend \/ ClientRecv \/ ClientEOF

Next == ServerStep \/ Relay \/ ClientStep \/ ClientQuit

Spec == Init /\ [][Next]_vars

\* Both programs run; nobody has to relay anything or to leave.
FairSpec == Spec /\ WF_vars(ServerStep) /\ WF_vars(ClientStep)

(***************************************************************************)
(* Properties.                                                             *)
(***************************************************************************)

TypeOK ==
    /\ cmode \in Mode /\ smode \in Mode
    /\ cpc \in {"start", "wait", "up", "down"}
    /\ spc \in {"hello", "answer", "keys", "ready", "registered", "closed"}
    /\ c2s \in {0, HelloLen(cmode, "client")}
    /\ s2c \in {0} \union {HelloLen(smode, "server") + k * RecordLen : k \in 0..MaxRecords}
    /\ sgot \in 0..c2s
    /\ cgot \in 0..s2c
    /\ ssecret = None \/ ssecret.ch = sgot
    /\ skeys = None \/ skeys = ServerKeys(ssecret)
    /\ (cpc = "up") => ckeys # None

\* Whatever the two programs were started with and wherever TCP cut the
\* hellos, a client only comes up against a server of its own mode ...
ModesAgree == cpc = "up" => cmode = smode

\* ... and only after both ends have had the whole of the other's hello.
WholeHellos ==
    cpc = "up" =>
        /\ sgot = HelloLen(cmode, "client")
        /\ cgot >= HelloLen(smode, "server")

KeysMatch == ckeys.write = skeys.read /\ ckeys.read = skeys.write

\* The two ends hold matching keys exactly when the client's recv() returned
\* ServerHello and nothing else, and never the same key for both directions.
KeysMatchIffExact ==
    (skeys # None /\ ckeys # None) =>
        /\ KeysMatch <=> cgot = HelloLen(smode, "server")
        /\ skeys.write # skeys.read /\ ckeys.write # ckeys.read

\* Nobody waits for ever for a hello that will not come.
HandshakeEnds == (cpc = "wait") ~> (cpc # "wait")

\* A handshake that fails at one end, and a client that leaves, end the
\* connection at both.
FailureEndsBoth ==
    /\ (cpc = "down") ~> (spc = "closed")
    /\ (spc = "closed") ~> (cpc = "down")

\* report.txt:499: the integration tests verify that both parties derive
\* identical session keys.
BothDeriveIdenticalKeys == (cpc = "up" /\ skeys # None) => KeysMatch
=============================================================================
