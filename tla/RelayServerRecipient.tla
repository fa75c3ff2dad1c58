------------------------ MODULE RelayServerRecipient ------------------------
(***************************************************************************)
(* What RelayLinkProofs shows of the relays to one recipient, carried over *)
(* to the server: it holds of any one client R of a server that serves     *)
(* them all, because what happens between the server and R is a behaviour  *)
(* of RelayLink (RelayServerRefines).                                      *)
(*   CaughtUpUntilOverlap    no record is lost to R before relays to R     *)
(*                           have overlapped;                              *)
(*   LostForGood             after a record number is lost, R displays     *)
(*                           nothing more.                                 *)
(***************************************************************************)
EXTENDS RelayServerRefines

CONSTANT R  \* any one of the connections

L == INSTANCE RelayLinkProofs WITH
    Handlers <- Clients \ {R},
    pc <- [h \in Clients \ {R} |-> IF RelaysTo(h, R) THEN hpc[h] ELSE "idle"],
    msg <- [h \in Clients \ {R} |-> relayed[h][R]],
    stamp <- [h \in Clients \ {R} |-> stamp[h][R]],
    seq <- seq[R], open <- open[R], wire <- wire[R], taken <- taken[R],
    client <- cst[R], expect <- expect[R], shown <- shown[R], overlap <- overlap[R]

\* As long as no two handlers have been relaying to R at once, R has displayed
\* the records it has received, all of them and in order.
CaughtUpHere ==
    ~overlap[R] /\ cst[R] = "up" => shown[R] = SubSeq(wire[R], 1, taken[R])

\* R waits for a record number that the server has counted past and that is
\* neither on the stream nor in any handler's nonce for R; or R has gone, or
\* holds other keys.
LostHere ==
    \/ cst[R] \in {"deaf", "down"}
    \/ /\ cst[R] = "up"
       /\ expect[R] < seq[R]
       /\ \A h \in Clients \ {R} : RelaysTo(h, R) => stamp[h][R] # expect[R]
       /\ \A i \in (taken[R] + 1)..Len(wire[R]) : wire[R][i].seq # expect[R]

-----------------------------------------------------------------------------

\* L is the link to R.
LEMMA OneLink ==
    ASSUME R \in Clients
    PROVE  /\ Link(R)!Init => L!Init
           /\ LinkNext(R) => [L!Next]_(L!vars)
<1>1. Link(R)!Init => L!Init
  BY DEF Link!Init, L!Init
<1>2. LinkNext(R) => [L!Next]_(L!vars)
  BY Zenon DEF LinkNext, Link!Next, L!Next, Link!vars, L!vars,
               Link!HandlerStep, L!HandlerStep, Link!Encrypt, L!Encrypt, Link!Bump, L!Bump,
               Link!EnterSend, L!EnterSend, Link!FinishSend, L!FinishSend,
               Link!SendError, L!SendError, Link!InFlight, L!InFlight,
               Link!linkState, L!linkState, Link!Close, L!Close,
               Link!FirstRecv, L!FirstRecv, Link!Receive, L!Receive, Link!Quit, L!Quit
<1> QED
  BY <1>1, <1>2

\* The server behaves towards R as the link does.
LEMMA LinkSpec == R \in Clients => (Spec => L!Spec /\ []L!TypeInv)
<1> SUFFICES ASSUME R \in Clients
             PROVE  Spec => L!Spec /\ []L!TypeInv
  OBVIOUS
<1>1. Init => L!Init
  BY LinkInit, OneLink
<1>2. TypeInv /\ RelayInv /\ [Next]_vars => [L!Next]_(L!vars)
  BY LinksFollow, OneLink
<1>3. L!Init => L!TypeInv
  BY L!TypeInit, BoundsAssumption
<1>4. L!TypeInv /\ [L!Next]_(L!vars) => L!TypeInv'
  BY L!TypeStep, BoundsAssumption
<1> QED
  BY <1>1, <1>2, <1>3, <1>4, RelayInvariant, PTL DEF Spec, L!Spec

\* In a server that serves any number of clients: what the missing lock costs a
\* client begins with the first overlap of relays to that very client.
THEOREM CaughtUpUntilOverlap == R \in Clients => (Spec => []CaughtUpHere)
<1> SUFFICES ASSUME R \in Clients
             PROVE  Spec => []CaughtUpHere
  OBVIOUS
<1>1. L!Init => L!LossInv
  BY L!LossInit, BoundsAssumption
<1>2. L!TypeInv /\ L!LossInv /\ [L!Next]_(L!vars) => L!LossInv'
  BY L!LossStep, BoundsAssumption
<1>3. L!LossInv => CaughtUpHere
  BY DEF L!LossInv, L!CaughtUp, CaughtUpHere
<1> QED
  BY <1>1, <1>2, <1>3, LinkSpec, PTL DEF L!Spec

\* Whatever the threads of the server do, a client that has lost the record
\* number displays nothing more, and never finds it again.
THEOREM LostForGood == R \in Clients => (Spec => [][LostHere => shown'[R] = shown[R] /\ LostHere']_vars)
<1> SUFFICES ASSUME R \in Clients
             PROVE  Spec => [][LostHere => shown'[R] = shown[R] /\ LostHere']_vars
  OBVIOUS
<1>1. TypeInv => (LostHere <=> L!Lost)
  <2> SUFFICES ASSUME TypeInv
               PROVE  LostHere <=> L!Lost
    OBVIOUS
  <2>1. \A h \in Clients \ {R} :
          RelaysTo(h, R) <=>
            [g \in Clients \ {R} |-> IF RelaysTo(g, R) THEN hpc[g] ELSE "idle"][h] # "idle"
    BY DEF RelaysTo, InRelay
  <2> QED
    BY <2>1 DEF LostHere, L!Lost, L!Passed, L!InFlight
<1>2. L!TypeInv /\ L!Lost /\ [L!Next]_(L!vars) => shown'[R] = shown[R] /\ L!Lost'
  BY L!LostStep, BoundsAssumption
<1>3. TypeInv' => (LostHere' <=> L!Lost')
  BY <1>1, PTL
<1>4. TypeInv /\ TypeInv' /\ L!TypeInv /\ [L!Next]_(L!vars) =>
        [LostHere => shown'[R] = shown[R] /\ LostHere']_vars
  BY <1>1, <1>2, <1>3
<1> QED
  BY <1>4, LinkSpec, RelayInvariant, PTL DEF L!Spec
=============================================================================
