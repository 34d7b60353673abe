---------------------------- MODULE ControlChannel ----------------------------
(***************************************************************************)
(* The agent's control channel, meshcore/agentcore.c: connecting to the    *)
(* server and trying again (MeshServer_Connect, MeshServer_ConnectEx), the *)
(* mutual authentication inside the web socket (MeshServer_OnResponse,     *)
(* MeshServer_ProcessCommand) and the ping that detects a dead server.     *)
(* Every handler runs on the thread of the chain, so a handler is a step.  *)
(*                                                                         *)
(* The web client (microstack/ILibWebClient.c) is modelled by how it ends  *)
(* a request: whatever happens, the last thing it does with one is to call *)
(* MeshServer_OnResponse without a header.                                 *)
(*                                                                         *)
(* A connection is named by its number, and so is the random nonce drawn   *)
(* for it.  Times are natural numbers; only their order matters here.      *)
(***************************************************************************)
EXTENDS Integers, FiniteSets

CONSTANTS Certs,         \* TLS certificates a peer may present
          Genuine,       \* those of the server whose key hash is serverHash
          None,          \* no certificate
          ServerNonces,  \* nonces a peer may send
          AutoProxy,     \* "autoproxy" is configured
          Multicast,     \* the server is "local", found by multicast
          MayGiveUp,     \* the settings may be incomplete when a connection is tried
          First,         \* the first retry times (500 to 1999 ms)
          IpRetry,       \* the retry time after a change of address (3000 ms)
          Cap, Jitter,   \* 240000 and 120000 ms
          MaxLinks,      \* bound: connections established
          MaxAsking      \* bound: proxy lookups under way

ASSUME CertsAssumption  == Genuine \subseteq Certs /\ None \notin Certs
ASSUME FlagsAssumption  == AutoProxy \in BOOLEAN /\ Multicast \in BOOLEAN /\ MayGiveUp \in BOOLEAN
ASSUME TimesAssumption  == /\ First \subseteq 1 .. (Cap - 1) /\ IpRetry \in 1 .. (Cap - 1)
                           /\ Cap \in Nat /\ Jitter \in 1 .. Cap
ASSUME BoundsAssumption == MaxLinks \in Nat /\ MaxAsking \in Nat

VARIABLES up,           \* the agent has started
          conn,         \* serverConnectionState: 0 idle, 1 trying, 2 established
          net,          \* the web client's request, see TypeOK
          req,          \* the 20 s timer of controlChannelRequest is pending
          slot,         \* the timer pending under the key "agent"
          retry,        \* retryTime
          asking,       \* proxy lookups whose promise is not resolved
          known,        \* autoproxy_status
          gaveUp,       \* history: the last attempt ended at an incomplete setting
          link,         \* history: number of the last established connection
          chan,         \* controlChannel: the connection it points to, 0 for NULL
          peer,         \* certificate of the open connection
          auth,         \* serverAuthState, a set of bits
          agentNonce, serverNonce,
          cached,       \* ServerTlsCertHash in the database
          proof,        \* history: nonce in the signature this connection accepted, or 0
          told,         \* history: Connected(1) less Connected(0) events the core has got
          info,         \* history: connection on which the agent information was sent
          pong          \* the pong timer: the connection it was armed on, 0 for none

retryVars == <<conn, net, req, slot, retry, asking, gaveUp>>
linkVars  == <<chan, peer, auth, proof, told>>
vars == <<up, retryVars, known, link, linkVars, agentNonce, serverNonce, cached, info, pong>>

Server == 1    \* serverAuthState |= 1: the server is authenticated
Agent  == 2    \* serverAuthState |= 2: the server says that the agent is
Both   == {Server, Agent}

-----------------------------------------------------------------------------
(* Connecting and trying again.                                            *)

\* Mutant of Delays: the last delay is not added.
DelaysFromZero(r) == IF r >= Cap THEN Cap .. (Cap + Jitter - 1) ELSE 0 .. (r - 1)

\* The delay before the next attempt, which becomes the new retryTime.
Delays(r) == IF r >= Cap THEN Cap .. (Cap + Jitter - 1) ELSE r .. (2 * r - 1)

\* Mutant of RetryLater: the timer is not armed.
RetryUnarmed(r) ==
  /\ retry' \in Delays(r)
  /\ conn' = 0 /\ net' = "idle" /\ req' = FALSE /\ gaveUp' = FALSE
  /\ UNCHANGED slot

\* ILibLifeTime_AddEx with the key "agent" removes whatever timer has that key, be it
\* the last reconnect timer or that of MeshAgent_HeapGcTimerSink.
RetryLater(r) ==
  /\ retry' \in Delays(r)
  /\ slot' = "connect"
  /\ conn' = 0 /\ net' = "idle" /\ req' = FALSE /\ gaveUp' = FALSE

\* The ways MeshServer_ConnectEx goes in state 0, with retryTime r (never 0, see
\* NoLostRetry), the timer s and a proxy lookups under way.

\* "No MeshCentral settings found", no ServerID, no MeshID ...
GiveUp(r, s, a) ==
  /\ MayGiveUp
  /\ gaveUp' = TRUE
  /\ conn' = 0 /\ net' = "idle" /\ req' = FALSE
  /\ slot' = s /\ retry' = r /\ asking' = a

\* The proxy is looked up first, if the helper does not throw.
AskForProxy(r, s, a) ==
  /\ AutoProxy /\ a < MaxAsking
  /\ asking' = a + 1
  /\ conn' = 0 /\ net' = "idle" /\ req' = FALSE
  /\ slot' = s /\ retry' = r /\ gaveUp' = FALSE

\* The request goes to the web client.
SendRequest(r, s, a) ==
  /\ conn' = 1 /\ net' = "pending" /\ req' = TRUE
  /\ slot' = s /\ retry' = r /\ asking' = a /\ gaveUp' = FALSE

\* "Could not resolve", or "local" and no multicast answer yet: MeshServer_Connect.
NoAddress(r, a) == RetryLater(r) /\ asking' = a

\* k: autoproxy_status, the lookup has been done.
MeshServer_ConnectEx(r, k, s, a) ==
  \/ GiveUp(r, s, a)
  \/ ~k /\ AskForProxy(r, s, a)
  \/ SendRequest(r, s, a)
  \/ NoAddress(r, a)

\* MeshServer_Connect in state 0: at once the first time, then later and later.
MeshServer_Connect(k, s) ==
  IF retry = 0 THEN \E r \in First : MeshServer_ConnectEx(r, k, s, asking)
               ELSE RetryLater(retry) /\ UNCHANGED asking

Init ==
  /\ up = FALSE
  /\ conn = 0 /\ net = "idle" /\ req = FALSE /\ slot = "gc" /\ retry = 0
  /\ asking = 0 /\ known = FALSE /\ gaveUp = FALSE
  /\ link = 0 /\ chan = 0 /\ peer = None /\ auth = {} /\ agentNonce = 0
  /\ serverNonce \in ServerNonces
  /\ cached = None /\ proof = 0 /\ told = 0 /\ info = 0 /\ pong = 0

\* MeshAgent_AgentMode ends in MeshServer_Connect; the timer of the heap's garbage
\* collection has been armed before, by MeshAgent_Start.
Start ==
  /\ ~up /\ up' = TRUE
  /\ MeshServer_Connect(known, slot)
  /\ UNCHANGED <<known, link, linkVars, agentNonce, serverNonce, cached, info, pong>>

\* The agent ends or dies, to be started again: only the database is kept.
Restart ==
  /\ up /\ up' = FALSE
  /\ conn' = 0 /\ net' = "idle" /\ req' = FALSE /\ slot' = "gc" /\ retry' = 0
  /\ asking' = 0 /\ known' = FALSE /\ gaveUp' = FALSE
  /\ chan' = 0 /\ peer' = None /\ auth' = {} /\ proof' = 0 /\ told' = 0 /\ info' = 0 /\ pong' = 0
  /\ agentNonce' = 0 /\ serverNonce' \in ServerNonces
  /\ UNCHANGED <<link, cached>>

\* Mutant of ConnectTimer: the handler is MeshServer_Connect.
ConnectTimerOnlyWaits ==
  /\ slot = "connect"
  /\ IF conn = 0 THEN MeshServer_Connect(known, "none")
     ELSE slot' = "none" /\ UNCHANGED <<conn, net, req, retry, asking, gaveUp>>
  /\ UNCHANGED <<up, known, link, linkVars, agentNonce, serverNonce, cached, info, pong>>

\* The reconnect timer, whose handler is MeshServer_ConnectEx itself.
ConnectTimer ==
  /\ slot = "connect"
  /\ IF conn = 0 THEN MeshServer_ConnectEx(retry, known, "none", asking)
     ELSE slot' = "none" /\ UNCHANGED <<conn, net, req, retry, asking, gaveUp>>
  /\ UNCHANGED <<up, known, link, linkVars, agentNonce, serverNonce, cached, info, pong>>

\* The promise of the proxy lookup is resolved (MeshServer_ConnectEx_AutoProxy).
AutoProxyAnswer ==
  /\ asking > 0
  /\ known' = TRUE
  /\ IF conn = 0 THEN MeshServer_ConnectEx(retry, TRUE, slot, asking - 1)
     ELSE asking' = asking - 1 /\ UNCHANGED <<conn, net, req, slot, retry, gaveUp>>
  /\ UNCHANGED <<up, link, linkVars, agentNonce, serverNonce, cached, info, pong>>

\* The server answers a multicast: an attempt is made outside of the retry timer.
MulticastAnswer ==
  /\ Multicast /\ up /\ conn = 0
  /\ MeshServer_ConnectEx(retry, known, slot, asking)
  /\ UNCHANGED <<up, known, link, linkVars, agentNonce, serverNonce, cached, info, pong>>

\* MeshAgent_AgentMode_IPAddressChanged_Handler.
IPAddressChanged ==
  /\ up /\ conn = 0
  /\ retry' = IpRetry /\ slot' = "connect"
  /\ UNCHANGED <<up, conn, net, req, asking, known, gaveUp, link, linkVars, agentNonce,
                 serverNonce, cached, info, pong>>

-----------------------------------------------------------------------------
(* The end of a connection or of an attempt.                               *)

\* Mutant of OnResponse_Complete: controlChannel is not cleared.
OnResponse_KeepsChannel ==
  /\ told' = IF auth = Both THEN told - 1 ELSE told
  /\ auth' = {} /\ peer' = None /\ proof' = 0
  /\ known' = FALSE
  /\ MeshServer_Connect(FALSE, slot)
  /\ UNCHANGED chan

\* MeshServer_OnResponse without a header: ReceiveStatus_Complete, then the retry.
OnResponse_Complete ==
  /\ told' = IF auth = Both THEN told - 1 ELSE told
  /\ auth' = {} /\ chan' = 0 /\ peer' = None /\ proof' = 0
  /\ known' = FALSE
  /\ MeshServer_Connect(FALSE, slot)

\* The connection is refused, its TLS or proxy handshake fails, or it is answered by a
\* complete HTTP response other than 101.
ConnectFails ==
  /\ net = "pending"
  /\ OnResponse_Complete
  /\ UNCHANGED <<up, link, agentNonce, serverNonce, cached, info, pong>>

\* The header of a response other than 101 ("Protocol Error encountered"): the timer
\* of the request is removed and nothing else happens until the peer closes.
AnsweredNot101 ==
  /\ net = "pending"
  /\ net' = "answered" /\ req' = FALSE
  /\ UNCHANGED <<up, conn, slot, retry, asking, known, gaveUp, link, linkVars, agentNonce,
                 serverNonce, cached, info, pong>>

\* Mutant of NetworkError: a request that is not connected yet is not cancelled.
NetworkErrorIfConnected ==
  /\ req /\ net # "pending"
  /\ OnResponse_Complete
  /\ UNCHANGED <<up, link, agentNonce, serverNonce, cached, info, pong>>

\* MeshServer_ConnectEx_NetworkError cancels the request.
NetworkError ==
  /\ req
  /\ OnResponse_Complete
  /\ UNCHANGED <<up, link, agentNonce, serverNonce, cached, info, pong>>

\* The peer or the network closes.
Disconnected ==
  /\ net \in {"answered", "open", "broken"}
  /\ OnResponse_Complete
  /\ UNCHANGED <<up, link, agentNonce, serverNonce, cached, info, pong>>

\* MeshAgent.disconnect, called by the core.
MeshAgent_Disconnect ==
  /\ chan # 0
  /\ OnResponse_Complete
  /\ UNCHANGED <<up, link, agentNonce, serverNonce, cached, info, pong>>

-----------------------------------------------------------------------------
(* An open channel.                                                        *)

\* MeshServer_ServerAuthenticated: the core learns that the channel can be used.
ServerAuthenticated(bits) == told' = IF bits = Both THEN told + 1 ELSE told

\* MeshServer_SendAgentInfo on connection n, with serverAuthState = bits.
SendAgentInfo(n, bits) ==
  /\ info' = n
  /\ retry' = 0
  /\ ServerAuthenticated(bits)

\* ReceiveStatus_Connection_Established, with a peer that shows certificate c.
OnResponse_Established(c) ==
  /\ net = "pending" /\ link < MaxLinks
  /\ link' = link + 1 /\ chan' = link + 1 /\ peer' = c
  /\ net' = "open" /\ conn' = 2 /\ req' = FALSE
  /\ agentNonce' = link + 1
  /\ proof' = 0
  /\ IF cached = c
     THEN auth' = {Server} /\ SendAgentInfo(link + 1, {Server})
     ELSE auth' = {} /\ UNCHANGED <<info, retry, told>>
  /\ UNCHANGED <<up, slot, asking, known, gaveUp, serverNonce, cached, pong>>

\* The same, when the first message cannot be sent: the socket is paused and about to
\* be closed, no nonce is drawn and no message is processed any more.
OnResponse_EstablishedSendError(c) ==
  /\ net = "pending" /\ link < MaxLinks
  /\ link' = link + 1 /\ chan' = link + 1 /\ peer' = c
  /\ net' = "broken" /\ conn' = 2 /\ req' = FALSE
  /\ auth' = {} /\ proof' = 0
  /\ UNCHANGED <<up, slot, retry, asking, known, gaveUp, told, agentNonce, serverNonce, cached,
                 info, pong>>

\* Mutant of Authenticating: authentication commands are also taken afterwards.
AlwaysAuthenticating == net = "open"

\* A message of the authentication can be processed.
Authenticating == net = "open" /\ auth # Both

\* MeshCommand_AuthRequest: the peer's nonce, if the hash it claims is its own.
AuthRequest(h, n) ==
  /\ Authenticating
  /\ h = peer
  /\ serverNonce' = n
  /\ UNCHANGED <<up, retryVars, known, link, linkVars, agentNonce, cached, info, pong>>

\* The signatures that exist.  The server signs its own certificate with any nonce that
\* an agent has sent by now; anybody else signs anything, with a key of his own.
Signatures ==
  [by : {"server"}, cert : Genuine, an : 1 .. link, sn : ServerNonces]
  \cup [by : {"other"}, cert : Certs, an : 1 .. link, sn : ServerNonces]

\* Mutants of Verifies: the certificate, or the nonce, is not part of what is signed.
VerifiesAnyCert(sig) == sig.by = "server" /\ sig.an = agentNonce /\ sig.sn = serverNonce
VerifiesAnyNonce(sig) == sig.by = "server" /\ sig.cert = peer /\ sig.sn = serverNonce

\* The signature is by the key wanted (serverHash), over what this connection is about.
Verifies(sig) ==
  /\ sig.by = "server"
  /\ sig.cert = peer /\ sig.an = agentNonce /\ sig.sn = serverNonce

\* MeshCommand_AuthVerify: the certificate is remembered, to skip this the next time.
AuthVerify(sig) ==
  /\ Authenticating
  /\ Verifies(sig)
  /\ auth' = auth \cup {Server}
  /\ cached' = peer
  /\ SendAgentInfo(link, auth \cup {Server})
  /\ proof' = sig.an
  /\ UNCHANGED <<up, conn, net, req, slot, asking, known, gaveUp, link, chan, peer, agentNonce,
                 serverNonce, pong>>

\* MeshCommand_AuthConfirm: the server has authenticated the agent.
AuthConfirm ==
  /\ Authenticating
  /\ auth' = auth \cup {Agent}
  /\ ServerAuthenticated(auth \cup {Agent})
  /\ UNCHANGED <<up, retryVars, known, link, chan, peer, proof, agentNonce, serverNonce, cached,
                 info, pong>>

\* The channel has been silent: a ping is sent and a pong expected in 5 s.
IdleTimeout ==
  /\ net = "open"
  /\ pong' = chan
  /\ UNCHANGED <<up, retryVars, known, link, linkVars, agentNonce, serverNonce, cached, info>>

PongSink ==
  /\ net = "open" /\ pong # 0
  /\ pong' = 0
  /\ UNCHANGED <<up, retryVars, known, link, linkVars, agentNonce, serverNonce, cached, info>>

\* No pong came: whatever channel there is now is closed.
PongTimeout ==
  /\ pong # 0 /\ pong' = 0
  /\ IF chan # 0 THEN OnResponse_Complete
                 ELSE UNCHANGED <<retryVars, known, linkVars>>
  /\ UNCHANGED <<up, link, agentNonce, serverNonce, cached, info>>

-----------------------------------------------------------------------------
Next ==
  \/ Start \/ Restart
  \/ ConnectTimer \/ AutoProxyAnswer \/ MulticastAnswer \/ IPAddressChanged
  \/ ConnectFails \/ AnsweredNot101 \/ NetworkError \/ Disconnected \/ MeshAgent_Disconnect
  \/ \E c \in Certs : OnResponse_Established(c) \/ OnResponse_EstablishedSendError(c)
  \/ \E h \in Certs, n \in ServerNonces : AuthRequest(h, n)
  \/ \E sig \in Signatures : AuthVerify(sig)
  \/ AuthConfirm
  \/ IdleTimeout \/ PongSink \/ PongTimeout

Spec == Init /\ [][Next]_vars

\* A pending timer fires, the agent is started, and a name that can be resolved again
\* and again is resolved in the end.  Nothing is assumed of the server.
FairSpec ==
  /\ Spec
  /\ WF_vars(Start) /\ WF_vars(NetworkError) /\ WF_vars(PongTimeout)
  /\ WF_vars(ConnectTimer) /\ SF_vars(ConnectTimer /\ conn' = 1)

-----------------------------------------------------------------------------
(* Properties.                                                             *)

Links == 0 .. MaxLinks

\* net: "idle", no request; "pending", queued or connecting; "answered", a response
\* other than 101 has begun; "open", a web socket; "broken", one that cannot send.
TypeOK ==
  /\ up \in BOOLEAN /\ conn \in 0 .. 2
  /\ net \in {"idle", "pending", "answered", "open", "broken"}
  /\ req \in BOOLEAN /\ slot \in {"none", "gc", "connect"}
  /\ retry \in 0 .. (2 * Cap - 1) /\ asking \in 0 .. MaxAsking
  /\ known \in BOOLEAN /\ gaveUp \in BOOLEAN
  /\ link \in Links /\ chan \in Links /\ peer \in Certs \cup {None}
  /\ auth \in SUBSET Both
  /\ agentNonce \in Links /\ serverNonce \in ServerNonces
  /\ cached \in Certs \cup {None} /\ proof \in Links
  /\ told \in {0, 1} /\ info \in Links /\ pong \in Links

\* serverConnectionState and controlChannel always say what the web client is doing, so
\* that no call is refused as "in any connection state" when there is no connection, and
\* the request timer never outlives its request, which it would cancel after its end.
StateIsTrue ==
  /\ conn = 0 <=> net = "idle"
  /\ conn = 1 <=> net \in {"pending", "answered"}
  /\ conn = 2 <=> net \in {"open", "broken"}
  /\ chan = IF conn = 2 THEN link ELSE 0
  /\ req => net = "pending"

\* Something is always pending that leads to the next attempt: in state 0 the reconnect
\* timer or a proxy lookup, unless a setting is missing; in state 1 the request timer,
\* unless the peer has begun to answer (MeshServer_Connect, MeshServer_ConnectEx).
NoLostRetry ==
  /\ up /\ conn = 0 => /\ slot = "connect" \/ asking > 0 \/ gaveUp
                       /\ retry > 0
  /\ conn = 1 => req \/ net = "answered"

\* The wait before the next attempt is never nothing, and stays below twice the cap.
BackoffBounded == slot = "connect" /\ conn = 0 => retry \in 1 .. (2 * Cap - 1)

\* Whoever is authenticated as the server shows one of the server's certificates, and
\* only such a certificate is remembered to skip the authentication ("a second round
\* within the websocket to see if the server is really valid").
AuthSound ==
  /\ Server \in auth => peer \in Genuine
  /\ cached \in Genuine \cup {None}

\* A signature that is accepted was made for the nonce of this very connection.
AuthFresh == proof # 0 => proof = link

\* The core is told of a connection exactly when both sides are authenticated, once per
\* connection, after the agent information was sent and the retry time was reset.
CoreToldTruth ==
  /\ told = IF auth = Both THEN 1 ELSE 0
  /\ Server \in auth => info = link /\ retry = 0

\* The inductive form of the safety properties.  An agent that is not started has only
\* the timer of the garbage collection; an attempt has a retry time to fall back on; an
\* authentication belongs to an open web socket, whose nonce is the agent's.
ChannelInv ==
  /\ TypeOK /\ StateIsTrue /\ NoLostRetry /\ AuthSound /\ AuthFresh /\ CoreToldTruth
  /\ ~up => conn = 0 /\ retry = 0 /\ asking = 0 /\ slot = "gc"
  /\ conn = 1 => retry > 0
  /\ auth # {} \/ proof # 0 => net = "open"
  /\ net = "open" => agentNonce = link

\* "We didn't receive a timely PONG response, so we must disconnect the control channel":
\* the channel that a pending pong timer will close is the one that was pinged.
PongOfThisChannel == pong # 0 /\ chan # 0 => pong = chan

\* An agent that is not connected tries to connect, however often it failed before,
\* unless it waits for a proxy lookup, which nothing bounds, or a setting is missing.
EventuallyTries == conn = 0 ~> conn = 1 \/ asking > 0 \/ gaveUp

\* An attempt comes to an end, unless the peer has begun to answer.
AttemptEnds == net = "pending" ~> net # "pending"
=============================================================================
