--------------------------- MODULE HandshakeProofs ---------------------------
(***************************************************************************)
(* What Handshake guarantees wherever TCP cuts the hellos, in whatever     *)
(* modes the two programs run and however many records are relayed:        *)
(*   TypeCorrect     the variables keep their types;                       *)
(*   SameMode        a client comes up against its own mode only;          *)
(*   HellosWhole     and after both hellos have arrived whole;             *)
(*   MatchIffExact   the keys of the two ends match exactly when nothing   *)
(*                   came with ServerHello, and never across directions.   *)
(* An end checks nothing but the length of the key share it is sent, so    *)
(* the argument is about lengths: what each end has accepted, out of how   *)
(* much of the other's stream (Inv).                                       *)
(***************************************************************************)
EXTENDS Handshake, TLAPS

USE MaxRecordsAssumption

Types ==
    /\ cmode \in Mode /\ smode \in Mode
    /\ cpc \in {"start", "wait", "up", "down"}
    /\ spc \in {"hello", "answer", "keys", "ready", "registered", "closed"}
    /\ c2s \in Nat /\ s2c \in Nat /\ sgot \in Nat /\ cgot \in Nat

\* What has been sent: a hello whole or not at all, and behind the server's
\* the relayed records.
Sent ==
    /\ c2s \in {0, HelloLen(cmode, "client")}
    /\ cpc \in {"wait", "up"} => c2s = HelloLen(cmode, "client")
    /\ s2c \in {0} \union {HelloLen(smode, "server") + k * RecordLen : k \in 0..MaxRecords}
    /\ spc \in {"keys", "ready", "registered"} => s2c # 0
    /\ sgot <= c2s /\ cgot <= s2c

\* What the server has derived, and from how much of ClientHello.
ServerSide ==
    /\ ssecret # None =>
         /\ ssecret = Secret(smode, ServerEncapsulated, sgot, HelloLen(smode, "server"))
         /\ sgot >= 1 /\ ShareAccepted(smode, "client", ShareIn(cmode, "client", sgot))
    /\ spc = "hello" => ssecret = None /\ sgot = 0
    /\ spc \in {"answer", "keys", "ready", "registered"} => ssecret # None
    /\ s2c # 0 => ssecret # None
    /\ spc \in {"hello", "answer"} => s2c = 0
    /\ skeys # None => ssecret # None /\ skeys = ServerKeys(ssecret)

\* What the client has derived, and from how much of the server's stream.
ClientSide ==
    /\ ckeys # None =>
         /\ ckeys = ClientKeys(Secret(cmode, ServerEncapsulated, c2s, cgot))
         /\ c2s = HelloLen(cmode, "client")
         /\ cgot >= 1 /\ ShareAccepted(cmode, "server", ShareIn(smode, "server", cgot))
    /\ cpc = "up" => ckeys # None
    /\ cpc \in {"start", "wait"} => ckeys = None /\ cgot = 0

Inv == Types /\ Sent /\ ServerSide /\ ClientSide

-----------------------------------------------------------------------------

\* A secret, and a pair of keys, is never taken for none.
LEMMA NotNone ==
    ASSUME NEW mode, NEW ch, NEW sh, NEW s
    PROVE  /\ Secret(mode, ServerEncapsulated, ch, sh) # None
           /\ ServerKeys(s) # None /\ ClientKeys(s) # None
<1>1. Secret(mode, ServerEncapsulated, ch, sh).dh # None.dh
  BY DEF Secret, None
<1>2. "write" \in DOMAIN ServerKeys(s) /\ "write" \in DOMAIN ClientKeys(s)
  BY DEF ServerKeys, ClientKeys
<1>3. "write" \notin DOMAIN None
  BY DEF None
<1> QED
  BY <1>1, <1>2, <1>3

\* The lengths of the hellos.
LEMMA Lengths ==
    ASSUME NEW mode \in Mode
    PROVE  /\ HelloLen(mode, "client") = IF mode = "classical" THEN 3 ELSE 5
           /\ HelloLen(mode, "server") = IF mode = "classical" THEN 3 ELSE 7
  BY DEF Mode, HelloLen, ShareLen, Head, Key

\* Nothing has been sent at first.
LEMMA InvInit == Init => Inv
  BY DEF Init, Inv, Types, Sent, ServerSide, ClientSide

\* What has been sent stays a hello and whole records.
LEMMA SentStep == Inv /\ [Next]_vars => (Types /\ Sent)'
<1> SUFFICES ASSUME Inv, [Next]_vars
             PROVE  (Types /\ Sent)'
  OBVIOUS
<1> USE DEF Inv
<1>1. /\ HelloLen(cmode, "client") \in Nat \ {0} /\ HelloLen(smode, "server") \in Nat \ {0}
  BY Lengths DEF Types
<1>2. CASE ServerSend
  BY <1>1, <1>2 DEF ServerSend, Types, Sent, ServerSide, RecordLen
<1>3. CASE Relay
  <2>1. PICK k \in 0..MaxRecords : s2c = HelloLen(smode, "server") + k * RecordLen
    BY <1>3 DEF Relay, Sent, ServerSide
  <2>2. k + 1 \in 0..MaxRecords /\ s2c + RecordLen = HelloLen(smode, "server") + (k + 1) * RecordLen
    <3> DEFINE h == HelloLen(smode, "server")
    <3>1. h \in Nat /\ s2c = h + k * RecordLen /\ s2c < h + MaxRecords * RecordLen
      BY <1>1, <1>3, <2>1 DEF Relay
    <3> HIDE DEF h
    <3>2. k + 1 \in 0..MaxRecords /\ s2c + RecordLen = h + (k + 1) * RecordLen
      BY <3>1 DEF RecordLen
    <3> QED
      BY <3>2 DEF h
  <2>3. s2c' \in {HelloLen(smode, "server") + j * RecordLen : j \in 0..MaxRecords}
    BY <1>3, <2>2 DEF Relay
  <2>4. s2c \in Nat /\ cgot \in Nat /\ cgot <= s2c /\ s2c # 0 /\ s2c' = s2c + 2
    BY <1>3 DEF Relay, Types, Sent, RecordLen
  <2>5. s2c' \in Nat /\ s2c' # 0 /\ cgot <= s2c'
    BY <2>4
  <2>6. UNCHANGED <<cmode, smode, cpc, spc, c2s, sgot, cgot>>
    BY <1>3 DEF Relay
  <2>7. Types'
    BY <2>5, <2>6 DEF Types
  <2>8. (s2c \in {0} \union {HelloLen(smode, "server") + j * RecordLen : j \in 0..MaxRecords})'
    BY ONLY <2>3, <2>6
  <2>9. Sent'
    BY <2>5, <2>6, <2>8 DEF Sent
  <2> QED
    BY <2>7, <2>9
<1>4. CASE ServerRecv \/ ServerEOF \/ ServerSendError \/ ServerLeave
  BY <1>1, <1>4 DEF ServerRecv, ServerEOF, ServerSendError, ServerLeave, Types, Sent
<1>5. CASE ServerEnable \/ ServerRegister
  BY <1>1, <1>5 DEF ServerEnable, ServerRegister, Types, Sent, ServerSide
<1>6. CASE ClientStep \/ ClientQuit
  BY <1>1, <1>6 DEF ClientStep, ClientSend, ClientRecv, ClientEOF, ClientQuit, Types, Sent
<1>7. CASE UNCHANGED vars
  BY <1>7 DEF vars, Types, Sent
<1> QED
  BY <1>2, <1>3, <1>4, <1>5, <1>6, <1>7 DEF Next, ServerStep

\* What the server has derived stays derived from what its recv() returned.
LEMMA ServerStays == Inv /\ [Next]_vars => ServerSide'
<1> SUFFICES ASSUME Inv, [Next]_vars
             PROVE  ServerSide'
  OBVIOUS
<1> USE DEF Inv
<1>1. CASE ServerRecv
  <2>1. PICK n \in 1..c2s :
          /\ sgot' = n
          /\ IF ShareAccepted(smode, "client", ShareIn(cmode, "client", n))
               THEN /\ spc' = "answer"
                    /\ ssecret' = Secret(smode, ServerEncapsulated, n, HelloLen(smode, "server"))
               ELSE spc' = "closed" /\ UNCHANGED ssecret
    BY <1>1 DEF ServerRecv
  <2>2. /\ spc = "hello" /\ ssecret = None /\ skeys = None /\ s2c = 0 /\ c2s \in Nat
        /\ UNCHANGED <<cmode, smode, s2c, skeys>>
    BY <1>1 DEF ServerRecv, ServerSide, Types
  <2>3. CASE ShareAccepted(smode, "client", ShareIn(cmode, "client", n))
    <3>1. /\ spc' = "answer" /\ ssecret' # None
          /\ ssecret' = Secret(smode, ServerEncapsulated, n, HelloLen(smode, "server"))
      BY <2>1, <2>3, NotNone
    <3>2. n >= 1
      BY <2>2
    <3> QED
      BY <2>1, <2>2, <2>3, <3>1, <3>2 DEF ServerSide
  <2>4. CASE ~ ShareAccepted(smode, "client", ShareIn(cmode, "client", n))
    BY <2>1, <2>2, <2>4 DEF ServerSide
  <2> QED
    BY <2>3, <2>4
<1>2. CASE ServerEnable
  BY <1>2 DEF ServerEnable, ServerSide
<1>3. CASE ServerEOF \/ ServerSendError \/ ServerLeave \/ ServerRegister
  BY <1>3 DEF ServerEOF, ServerSendError, ServerLeave, ServerRegister, ServerSide
<1>4. CASE ServerSend \/ Relay
  BY <1>4 DEF ServerSend, Relay, ServerSide
<1>5. CASE ClientStep \/ ClientQuit
  BY <1>5 DEF ClientStep, ClientSend, ClientRecv, ClientEOF, ClientQuit, ServerSide
<1>6. CASE UNCHANGED vars
  BY <1>6 DEF vars, ServerSide
<1> QED
  BY <1>1, <1>2, <1>3, <1>4, <1>5, <1>6 DEF Next, ServerStep

\* So does what the client has derived.
LEMMA ClientStays == Inv /\ [Next]_vars => ClientSide'
<1> SUFFICES ASSUME Inv, [Next]_vars
             PROVE  ClientSide'
  OBVIOUS
<1> USE DEF Inv
<1>1. CASE ClientRecv
  <2>1. PICK n \in 1..s2c :
          /\ cgot' = n
          /\ IF ShareAccepted(cmode, "server", ShareIn(smode, "server", n))
               THEN /\ cpc' = "up"
                    /\ ckeys' = ClientKeys(Secret(cmode, ServerEncapsulated, c2s, n))
               ELSE cpc' = "down" /\ UNCHANGED ckeys
    BY <1>1 DEF ClientRecv
  <2>2. /\ ckeys = None /\ c2s = HelloLen(cmode, "client") /\ s2c \in Nat
        /\ UNCHANGED <<cmode, smode, c2s>>
    BY <1>1 DEF ClientRecv, ClientSide, Sent, Types
  <2>3. CASE ShareAccepted(cmode, "server", ShareIn(smode, "server", n))
    <3>1. /\ cpc' = "up" /\ ckeys' # None
          /\ ckeys' = ClientKeys(Secret(cmode, ServerEncapsulated, c2s, n))
      BY <2>1, <2>3, NotNone
    <3>2. n >= 1
      BY <2>2
    <3> QED
      BY <2>1, <2>2, <2>3, <3>1, <3>2 DEF ClientSide
  <2>4. CASE ~ ShareAccepted(cmode, "server", ShareIn(smode, "server", n))
    BY <2>1, <2>2, <2>4 DEF ClientSide
  <2> QED
    BY <2>3, <2>4
<1>2. CASE ClientSend
  BY <1>2 DEF ClientSend, ClientSide
<1>3. CASE ClientEOF \/ ClientQuit
  BY <1>3 DEF ClientEOF, ClientQuit, ClientSide
<1>4. CASE Relay \/ ServerStep
  BY <1>4 DEF Relay, ServerStep, ServerRecv, ServerEOF, ServerSend, ServerSendError,
     ServerEnable, ServerRegister, ServerLeave, ClientSide
<1>5. CASE UNCHANGED vars
  BY <1>5 DEF vars, ClientSide
<1> QED
  BY <1>1, <1>2, <1>3, <1>4, <1>5 DEF Next, ClientStep

\* Together.
LEMMA Invariant == Spec => []Inv
<1>1. Inv /\ [Next]_vars => Inv'
  BY SentStep, ServerStays, ClientStays DEF Inv
<1> QED
  BY InvInit, <1>1, PTL DEF Spec

-----------------------------------------------------------------------------

\* When the client has keys, each end has accepted the share of the other: a
\* hybrid end finds the X25519 share too short, however much comes behind it,
\* and what is left is one mode, with the hello of the client whole and the
\* server's at least whole.  (A server in classical mode does accept a hybrid
\* share that is cut behind its first key; then the client refuses.)
LEMMA Agreement ==
    Inv /\ ckeys # None =>
        /\ ssecret # None /\ cmode = smode
        /\ sgot = c2s /\ c2s = HelloLen(cmode, "client")
        /\ cgot >= HelloLen(smode, "server")
<1> SUFFICES ASSUME Inv, ckeys # None
             PROVE  /\ ssecret # None /\ cmode = smode
                    /\ sgot = c2s /\ c2s = HelloLen(cmode, "client")
                    /\ cgot >= HelloLen(smode, "server")
  OBVIOUS
<1>1. /\ c2s = HelloLen(cmode, "client") /\ cgot >= 1
      /\ ShareAccepted(cmode, "server", ShareIn(smode, "server", cgot))
  BY DEF Inv, ClientSide
<1>2. /\ cmode \in Mode /\ smode \in Mode
      /\ c2s \in Nat /\ s2c \in Nat /\ sgot \in Nat /\ cgot \in Nat
      /\ sgot <= c2s /\ cgot <= s2c
  BY DEF Inv, Types, Sent
<1>3. ssecret # None
  BY <1>1, <1>2 DEF Inv, ServerSide
<1>4. sgot >= 1 /\ ShareAccepted(smode, "client", ShareIn(cmode, "client", sgot))
  BY <1>3 DEF Inv, ServerSide
<1> QED
  BY <1>1, <1>2, <1>3, <1>4 DEF Mode, ShareAccepted, ShareIn, HelloLen, ShareLen, Head, Key

\* The variables keep their types (TypeOK): the streams are hellos and whole
\* records, and no end ever reads more than the other has sent.
THEOREM TypeCorrect == Spec => []TypeOK
<1>1. Inv => TypeOK
  <2> SUFFICES ASSUME Inv
               PROVE  TypeOK
    OBVIOUS
  <2>1. sgot \in 0..c2s /\ cgot \in 0..s2c
    BY DEF Inv, Types, Sent
  <2>2. ssecret = None \/ ssecret.ch = sgot
    BY DEF Inv, ServerSide, Secret
  <2> QED
    BY <2>1, <2>2 DEF Inv, Types, Sent, ServerSide, ClientSide, TypeOK
<1> QED
  BY <1>1, Invariant, PTL

\* A client comes up against a server of its own mode only, wherever TCP cuts
\* the hellos: the key shares of the two modes are told apart by their length
\* alone, and that is enough (ModesAgree).
THEOREM SameMode == Spec => []ModesAgree
<1>1. Inv => ModesAgree
  BY Agreement DEF ModesAgree, Inv, ClientSide
<1> QED
  BY <1>1, Invariant, PTL

\* A client comes up only when each end has had the whole of the other's hello,
\* although neither end waits for the rest of one (WholeHellos).
THEOREM HellosWhole == Spec => []WholeHellos
<1>1. Inv => WholeHellos
  BY Agreement DEF WholeHellos, Inv, ClientSide
<1> QED
  BY <1>1, Invariant, PTL

\* The ends hold matching keys exactly when the client's recv() returned
\* ServerHello and nothing of the records relayed behind it; the two directions
\* never share a key (KeysMatchIffExact).
THEOREM MatchIffExact == Spec => []KeysMatchIffExact
<1>1. Inv => KeysMatchIffExact
  <2> SUFFICES ASSUME Inv, skeys # None, ckeys # None
               PROVE  /\ KeysMatch <=> cgot = HelloLen(smode, "server")
                      /\ skeys.write # skeys.read /\ ckeys.write # ckeys.read
    BY DEF KeysMatchIffExact
  <2> DEFINE s == Secret(smode, ServerEncapsulated, sgot, HelloLen(smode, "server"))
             c == Secret(cmode, ServerEncapsulated, c2s, cgot)
  <2>1. skeys = ServerKeys(s) /\ ckeys = ClientKeys(c)
    BY Agreement DEF Inv, ServerSide, ClientSide
  <2>2. s = c <=> cgot = HelloLen(smode, "server")
    BY Agreement DEF Secret
  <2> HIDE DEF s, c
  <2>3. KeysMatch <=> s = c
    BY <2>1 DEF KeysMatch, ServerKeys, ClientKeys, Traffic
  <2>4. skeys.write # skeys.read /\ ckeys.write # ckeys.read
    BY <2>1 DEF ServerKeys, ClientKeys, Traffic
  <2> QED
    BY <2>2, <2>3, <2>4
<1> QED
  BY <1>1, Invariant, PTL
=============================================================================
