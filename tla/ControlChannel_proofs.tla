------------------------ MODULE ControlChannel_proofs ------------------------
(***************************************************************************)
(* Proofs about ControlChannel, for every set of certificates and nonces,  *)
(* every setting of the retry times and every number of connections.       *)
(***************************************************************************)
EXTENDS ControlChannel, TLAPS

\* What MeshServer_Connect and MeshServer_ConnectEx leave behind: an attempt with its
\* timer, or no attempt and something that leads to the next one.
Settled ==
  /\ \/ conn = 0 /\ net = "idle" /\ req = FALSE
     \/ conn = 1 /\ net = "pending" /\ req = TRUE
  /\ req \in BOOLEAN
  /\ slot \in {"none", "gc", "connect"}
  /\ retry \in 1 .. (2 * Cap - 1) /\ asking \in 0 .. MaxAsking /\ gaveUp \in BOOLEAN
  /\ conn = 0 => slot = "connect" \/ asking > 0 \/ gaveUp = TRUE

\* A delay is positive and below twice the cap (MeshServer_Connect).
LEMMA DelaysBounded ==
  ASSUME NEW r \in 1 .. (2 * Cap - 1)
  PROVE  Delays(r) \subseteq 1 .. (2 * Cap - 1)
<1> CASE r >= Cap
  BY TimesAssumption DEF Delays
<1> CASE ~(r >= Cap)
  BY TimesAssumption DEF Delays
<1> QED OBVIOUS

\* Arming the reconnect timer settles the retry state.
LEMMA LaterSettles ==
  ASSUME NEW r \in 1 .. (2 * Cap - 1), RetryLater(r), asking' \in 0 .. MaxAsking
  PROVE  Settled'
<1>1. retry' \in 1 .. (2 * Cap - 1)
  BY DelaysBounded DEF RetryLater
<1>2. QED
  BY <1>1 DEF RetryLater, Settled

\* However MeshServer_ConnectEx ends, the retry state is settled.
LEMMA ConnectExSettles ==
  ASSUME NEW r \in 1 .. (2 * Cap - 1), NEW k, NEW s \in {"none", "gc", "connect"},
         NEW a \in 0 .. MaxAsking, MeshServer_ConnectEx(r, k, s, a)
  PROVE  Settled'
<1>1. CASE GiveUp(r, s, a)
  BY <1>1 DEF GiveUp, Settled
<1>2. CASE AskForProxy(r, s, a)
  <2>1. asking' \in 0 .. MaxAsking /\ asking' > 0
    BY <1>2, BoundsAssumption DEF AskForProxy
  <2>2. QED
    BY <1>2, <2>1, Zenon DEF AskForProxy, Settled
<1>3. CASE SendRequest(r, s, a)
  <2>1. conn' # 0
    BY <1>3 DEF SendRequest
  <2>2. QED
    BY <1>3, <2>1, Zenon DEF SendRequest, Settled
<1>4. CASE NoAddress(r, a)
  BY <1>4, LaterSettles DEF NoAddress
<1>5. QED
  BY <1>1, <1>2, <1>3, <1>4 DEF MeshServer_ConnectEx

\* The same for MeshServer_Connect, at the first attempt and at every later one.
LEMMA ConnectSettles ==
  ASSUME TypeOK, NEW k, MeshServer_Connect(k, slot)
  PROVE  Settled'
<1>1. CASE retry = 0
  <2>1. PICK r \in First : MeshServer_ConnectEx(r, k, slot, asking)
    BY <1>1 DEF MeshServer_Connect
  <2>2. r \in 1 .. (2 * Cap - 1)
    BY TimesAssumption
  <2>3. QED
    BY <2>1, <2>2, ConnectExSettles DEF TypeOK
<1>2. CASE retry # 0
  <2>1. retry \in 1 .. (2 * Cap - 1)
    BY <1>2, TimesAssumption DEF TypeOK
  <2>2. RetryLater(retry) /\ asking' = asking
    BY <1>2 DEF MeshServer_Connect
  <2>3. QED
    BY <2>1, <2>2, LaterSettles DEF TypeOK
<1>3. QED
  BY <1>1, <1>2

-----------------------------------------------------------------------------
\* In the idle state there is nothing to undo: no channel and no authentication.
LEMMA IdleFacts ==
  ASSUME ChannelInv, conn = 0
  PROVE  /\ auth = {} /\ proof = 0 /\ chan = 0 /\ told = 0
         /\ up => retry \in 1 .. (2 * Cap - 1)
<1>1. net = "idle" /\ chan = 0
  BY DEF ChannelInv, StateIsTrue
<1>2. auth = {} /\ proof = 0
  BY <1>1 DEF ChannelInv
<1>3. told = 0
  BY <1>2 DEF ChannelInv, CoreToldTruth, Both
<1>4. up => retry \in 1 .. (2 * Cap - 1)
  BY TimesAssumption DEF ChannelInv, NoLostRetry, TypeOK
<1>5. QED
  BY <1>1, <1>2, <1>3, <1>4

\* A step that ends in a settled retry state, without a channel, keeps the invariant.
LEMMA SettledStep ==
  ASSUME ChannelInv, Settled', up' = TRUE, auth' = {}, chan' = 0, proof' = 0, told' = 0,
         peer' \in Certs \cup {None}, known' \in BOOLEAN, pong' \in Links,
         UNCHANGED <<link, agentNonce, serverNonce, cached, info>>
  PROVE  ChannelInv'
<1>1. /\ conn' \in 0 .. 2 /\ net' \in {"idle", "pending", "answered", "open", "broken"}
      /\ slot' \in {"none", "gc", "connect"} /\ retry' \in 0 .. (2 * Cap - 1)
      /\ asking' \in 0 .. MaxAsking
  BY TimesAssumption DEF Settled
<1>2. up' \in BOOLEAN /\ req' \in BOOLEAN /\ known' \in BOOLEAN /\ gaveUp' \in BOOLEAN
  BY Zenon DEF Settled
<1>3. /\ link' \in Links /\ chan' \in Links /\ peer' \in Certs \cup {None}
      /\ auth' \in SUBSET Both /\ agentNonce' \in Links /\ serverNonce' \in ServerNonces
      /\ cached' \in Certs \cup {None} /\ proof' \in Links /\ told' \in {0, 1}
      /\ info' \in Links /\ pong' \in Links
  BY BoundsAssumption DEF ChannelInv, TypeOK, Links
<1>4. TypeOK'
  BY <1>1, <1>2, <1>3, Zenon DEF TypeOK
<1>5. StateIsTrue'
  BY DEF Settled, StateIsTrue
<1>6. NoLostRetry'
  <2>1. retry' > 0
    BY TimesAssumption DEF Settled
  <2>2. conn' = 0 => slot' = "connect" \/ asking' > 0 \/ gaveUp'
    BY Zenon DEF Settled
  <2>3. conn' = 1 => req' \/ net' = "answered"
    <3>1. conn' = 1 => ~(conn' = 0)
      OBVIOUS
    <3>2. QED
      BY <3>1, Zenon DEF Settled
  <2>4. QED
    BY <2>1, <2>2, <2>3, Zenon DEF NoLostRetry
<1>7. AuthSound' /\ AuthFresh' /\ CoreToldTruth'
  BY DEF ChannelInv, AuthSound, AuthFresh, CoreToldTruth, Both
<1>8. /\ ~up' => conn' = 0 /\ retry' = 0 /\ asking' = 0 /\ slot' = "gc"
      /\ auth' # {} \/ proof' # 0 => net' = "open"
  BY Zenon
<1>9. conn' = 1 => retry' > 0
  BY TimesAssumption DEF Settled
<1>10. net' = "open" => agentNonce' = link'
  BY DEF Settled
<1>11. QED
  BY <1>4, <1>5, <1>6, <1>7, <1>8, <1>9, <1>10, Zenon DEF ChannelInv

\* The end of a connection or of an attempt keeps the invariant.
LEMMA CompleteStep ==
  ASSUME ChannelInv, conn # 0, OnResponse_Complete, pong' \in Links,
         UNCHANGED <<up, link, agentNonce, serverNonce, cached, info>>
  PROVE  ChannelInv'
<1>1. Settled'
  BY ConnectSettles, Zenon DEF OnResponse_Complete, ChannelInv
<1>2. up' = TRUE
  BY Zenon DEF ChannelInv, TypeOK
<1>3. told' = 0
  BY DEF OnResponse_Complete, ChannelInv, CoreToldTruth
<1>4. auth' = {} /\ chan' = 0 /\ proof' = 0 /\ peer' \in Certs \cup {None} /\ known' \in BOOLEAN
  BY Zenon DEF OnResponse_Complete
<1>5. QED
  BY <1>1, <1>2, <1>3, <1>4, SettledStep, Zenon

\* An attempt made in the idle state, by whatever handler, keeps the invariant.
LEMMA AttemptStep ==
  ASSUME ChannelInv, conn = 0, up = TRUE,
         NEW k, NEW s \in {"none", "gc", "connect"}, NEW a \in 0 .. MaxAsking,
         MeshServer_ConnectEx(retry, k, s, a), known' \in BOOLEAN,
         UNCHANGED <<up, link, linkVars, agentNonce, serverNonce, cached, info, pong>>
  PROVE  ChannelInv'
<1>1. auth = {} /\ proof = 0 /\ chan = 0 /\ told = 0 /\ retry \in 1 .. (2 * Cap - 1)
  BY IdleFacts
<1>2. Settled'
  BY <1>1, ConnectExSettles
<1>3. /\ up' = TRUE /\ auth' = {} /\ chan' = 0 /\ proof' = 0 /\ told' = 0
      /\ peer' \in Certs \cup {None} /\ pong' \in Links
  BY <1>1, Zenon DEF linkVars, ChannelInv, TypeOK
<1>4. QED
  BY <1>2, <1>3, SettledStep, Zenon

-----------------------------------------------------------------------------
\* The start of the agent keeps the invariant.
LEMMA StartStep ==
  ASSUME ChannelInv, Start
  PROVE  ChannelInv'
<1>1. conn = 0
  BY Zenon DEF ChannelInv, Start
<1>2. auth = {} /\ proof = 0 /\ chan = 0 /\ told = 0
  BY <1>1, IdleFacts
<1>3. Settled'
  BY ConnectSettles, Zenon DEF Start, ChannelInv
<1>4. /\ up' = TRUE /\ auth' = {} /\ chan' = 0 /\ proof' = 0 /\ told' = 0
      /\ peer' \in Certs \cup {None} /\ pong' \in Links /\ known' \in BOOLEAN
      /\ UNCHANGED <<link, agentNonce, serverNonce, cached, info>>
  BY <1>2, Zenon DEF Start, linkVars, ChannelInv, TypeOK
<1>5. QED
  BY <1>3, <1>4, SettledStep, Zenon

\* The end of the agent keeps the invariant: what is left is a certificate in the database.
LEMMA RestartStep ==
  ASSUME ChannelInv, Restart
  PROVE  ChannelInv'
<1>1. /\ up' \in BOOLEAN /\ req' \in BOOLEAN /\ known' \in BOOLEAN /\ gaveUp' \in BOOLEAN
  BY Zenon DEF Restart
<1>2. /\ conn' \in 0 .. 2 /\ net' \in {"idle", "pending", "answered", "open", "broken"}
      /\ slot' \in {"none", "gc", "connect"} /\ retry' \in 0 .. (2 * Cap - 1)
      /\ asking' \in 0 .. MaxAsking
      /\ link' \in Links /\ chan' \in Links /\ peer' \in Certs \cup {None}
      /\ auth' \in SUBSET Both /\ agentNonce' \in Links /\ serverNonce' \in ServerNonces
      /\ cached' \in Certs \cup {None} /\ proof' \in Links /\ told' \in {0, 1}
      /\ info' \in Links /\ pong' \in Links
  BY BoundsAssumption, TimesAssumption DEF Restart, ChannelInv, TypeOK, Links
<1>3. TypeOK'
  BY <1>1, <1>2, Zenon DEF TypeOK
<1>4. StateIsTrue' /\ AuthSound' /\ AuthFresh' /\ CoreToldTruth'
  BY DEF Restart, ChannelInv, StateIsTrue, AuthSound, AuthFresh, CoreToldTruth, Both
<1>5. conn' # 1
  BY DEF Restart
<1>6. NoLostRetry'
  BY <1>5, Zenon DEF Restart, NoLostRetry
<1>7. net' # "open"
  BY DEF Restart
<1>8. QED
  BY <1>3, <1>4, <1>5, <1>6, <1>7, Zenon DEF Restart, ChannelInv

\* A timer or a lookup that finds a connection under way changes nothing that matters.
LEMMA IgnoredStep ==
  ASSUME ChannelInv, conn # 0, slot' \in {"none", "gc", "connect"}, asking' \in 0 .. MaxAsking,
         known' \in BOOLEAN,
         UNCHANGED <<up, conn, net, req, retry, gaveUp, link, linkVars, agentNonce, serverNonce,
                     cached, info, pong>>
  PROVE  ChannelInv'
<1>1. TypeOK'
  BY Zenon DEF ChannelInv, TypeOK, linkVars
<1>2. StateIsTrue' /\ AuthSound' /\ AuthFresh' /\ CoreToldTruth'
  BY DEF ChannelInv, StateIsTrue, AuthSound, AuthFresh, CoreToldTruth, linkVars
<1>3. NoLostRetry'
  BY Zenon DEF ChannelInv, NoLostRetry
<1>4. QED
  BY <1>1, <1>2, <1>3, Zenon DEF ChannelInv, linkVars

\* The reconnect timer keeps the invariant, also when it fires late.
LEMMA ConnectTimerStep ==
  ASSUME ChannelInv, ConnectTimer
  PROVE  ChannelInv'
<1>1. up = TRUE
  <2>1. slot # "gc"
    BY DEF ConnectTimer
  <2>2. QED
    BY <2>1, Zenon DEF ChannelInv, TypeOK
<1>2. CASE conn = 0
  BY <1>1, <1>2, AttemptStep DEF ConnectTimer, ChannelInv, TypeOK
<1>3. CASE conn # 0
  BY <1>3, IgnoredStep DEF ConnectTimer, ChannelInv, TypeOK
<1>4. QED
  BY <1>2, <1>3

\* An answer of the proxy lookup keeps the invariant.
LEMMA AutoProxyAnswerStep ==
  ASSUME ChannelInv, AutoProxyAnswer
  PROVE  ChannelInv'
<1>1. asking # 0 /\ asking - 1 \in 0 .. MaxAsking
  BY BoundsAssumption DEF AutoProxyAnswer, ChannelInv, TypeOK
<1>2. up = TRUE
  BY <1>1, Zenon DEF ChannelInv, TypeOK
<1>3. known' \in BOOLEAN
  BY Zenon DEF AutoProxyAnswer
<1>4. CASE conn = 0
  <2>1. /\ MeshServer_ConnectEx(retry, TRUE, slot, asking - 1)
        /\ slot \in {"none", "gc", "connect"}
        /\ UNCHANGED <<up, link, linkVars, agentNonce, serverNonce, cached, info, pong>>
    BY <1>4 DEF AutoProxyAnswer, ChannelInv, TypeOK
  <2>2. QED
    BY <1>1, <1>2, <1>3, <1>4, <2>1, AttemptStep
<1>5. CASE conn # 0
  BY <1>1, <1>3, <1>5, IgnoredStep DEF AutoProxyAnswer, ChannelInv, TypeOK
<1>6. QED
  BY <1>4, <1>5

\* A multicast answer keeps the invariant.
LEMMA MulticastAnswerStep ==
  ASSUME ChannelInv, MulticastAnswer
  PROVE  ChannelInv'
<1>1. up = TRUE /\ known' \in BOOLEAN
  BY Zenon DEF MulticastAnswer, ChannelInv, TypeOK
<1>2. QED
  BY <1>1, AttemptStep DEF MulticastAnswer, ChannelInv, TypeOK

\* A change of address keeps the invariant.
LEMMA IPAddressChangedStep ==
  ASSUME ChannelInv, IPAddressChanged
  PROVE  ChannelInv'
<1>1. auth = {} /\ proof = 0
  BY IdleFacts DEF IPAddressChanged
<1>2. /\ retry' \in 0 .. (2 * Cap - 1) /\ retry' > 0 /\ conn' # 1 /\ net' # "open"
      /\ slot' \in {"none", "gc", "connect"}
  BY TimesAssumption DEF IPAddressChanged, ChannelInv, StateIsTrue
<1>3. TypeOK'
  BY <1>2, Zenon DEF IPAddressChanged, ChannelInv, TypeOK, linkVars
<1>4. StateIsTrue' /\ AuthSound' /\ AuthFresh' /\ CoreToldTruth'
  BY <1>1 DEF IPAddressChanged, ChannelInv, StateIsTrue, AuthSound, AuthFresh, CoreToldTruth, linkVars
<1>5. NoLostRetry'
  BY <1>2, Zenon DEF IPAddressChanged, NoLostRetry
<1>6. QED
  BY <1>1, <1>2, <1>3, <1>4, <1>5, Zenon DEF IPAddressChanged, ChannelInv, linkVars

-----------------------------------------------------------------------------
\* A response other than 101 keeps the invariant.
LEMMA AnsweredNot101Step ==
  ASSUME ChannelInv, AnsweredNot101
  PROVE  ChannelInv'
<1>1. conn = 1 /\ auth = {} /\ proof = 0 /\ net' # "open"
  BY DEF AnsweredNot101, ChannelInv, StateIsTrue
<1>2. /\ req' \in BOOLEAN
      /\ net' \in {"idle", "pending", "answered", "open", "broken"}
  BY Zenon DEF AnsweredNot101
<1>3. TypeOK'
  BY <1>2, Zenon DEF AnsweredNot101, ChannelInv, TypeOK, linkVars
<1>4. StateIsTrue' /\ AuthSound' /\ AuthFresh' /\ CoreToldTruth'
  BY <1>1 DEF AnsweredNot101, ChannelInv, StateIsTrue, AuthSound, AuthFresh, CoreToldTruth, linkVars
<1>5. conn' # 0
  BY <1>1 DEF AnsweredNot101
<1>6. NoLostRetry'
  BY <1>5, Zenon DEF AnsweredNot101, NoLostRetry
<1>7. QED
  BY <1>1, <1>3, <1>4, <1>6, Zenon DEF AnsweredNot101, ChannelInv, linkVars

\* A web socket that opens, able to send or not, keeps the invariant.
LEMMA EstablishedStep ==
  ASSUME ChannelInv, NEW c \in Certs,
         OnResponse_Established(c) \/ OnResponse_EstablishedSendError(c)
  PROVE  ChannelInv'
<1>1. /\ net = "pending" /\ link < MaxLinks /\ link' = link + 1 /\ chan' = link + 1 /\ peer' = c
      /\ net' \in {"open", "broken"} /\ conn' = 2 /\ proof' = 0
      /\ auth' \in {{}, {Server}}
      /\ UNCHANGED <<slot, asking, serverNonce, cached, pong>>
  BY DEF OnResponse_Established, OnResponse_EstablishedSendError
<1>2. /\ req' = FALSE /\ req' \in BOOLEAN /\ up' = up /\ known' = known /\ gaveUp' = gaveUp
  BY Zenon DEF OnResponse_Established, OnResponse_EstablishedSendError
<1>3. auth = {} /\ told = 0 /\ conn = 1
  <2>1. auth = {} /\ conn = 1
    BY <1>1 DEF ChannelInv, StateIsTrue
  <2>2. QED
    BY <2>1 DEF ChannelInv, CoreToldTruth, Both
<1>4. {Server} # Both /\ {} # Both
  BY DEF Both, Server, Agent
<1>5. told' = 0
  BY <1>3, <1>4 DEF OnResponse_Established, OnResponse_EstablishedSendError, SendAgentInfo,
     ServerAuthenticated
<1>6. /\ retry' \in 0 .. (2 * Cap - 1)
      /\ info' \in Links /\ agentNonce' \in Links /\ link' \in Links /\ chan' \in Links
  BY <1>1, BoundsAssumption, TimesAssumption DEF OnResponse_Established,
     OnResponse_EstablishedSendError, SendAgentInfo, ChannelInv, TypeOK, Links
<1>7. TypeOK'
  <2>1. conn' \in 0 .. 2 /\ proof' \in Links /\ told' \in {0, 1} /\ auth' \in SUBSET Both
    BY <1>1, <1>5, BoundsAssumption DEF Links, Both
  <2>2. net' \in {"idle", "pending", "answered", "open", "broken"} /\ peer' \in Certs \cup {None}
    BY <1>1
  <2>3. QED
    BY <1>1, <1>2, <1>6, <2>1, <2>2, Zenon DEF ChannelInv, TypeOK
<1>8. auth' = {Server} => /\ peer' = cached /\ info' = link' /\ retry' = 0 /\ net' = "open"
  BY DEF OnResponse_Established, OnResponse_EstablishedSendError, SendAgentInfo
<1>9. StateIsTrue' /\ AuthFresh'
  <2>1. req' => net' = "pending"
    BY <1>2, Zenon
  <2>2. QED
    BY <1>1, <2>1 DEF StateIsTrue, AuthFresh
<1>10. AuthSound'
  BY <1>1, <1>8, CertsAssumption DEF ChannelInv, AuthSound
<1>11. CoreToldTruth'
  BY <1>1, <1>4, <1>5, <1>8 DEF CoreToldTruth
<1>12. conn' # 0 /\ conn' # 1
  BY <1>1
<1>13. NoLostRetry'
  BY <1>12, Zenon DEF NoLostRetry
<1>14. net' = "open" => agentNonce' = link'
  BY <1>1 DEF OnResponse_Established, OnResponse_EstablishedSendError
<1>15. auth' # {} \/ proof' # 0 => net' = "open"
  BY <1>1, <1>8
<1>16. up' = TRUE
  <2>1. conn # 0
    BY <1>3
  <2>2. QED
    BY <1>2, <2>1, Zenon DEF ChannelInv, TypeOK
<1>17. QED
  BY <1>7, <1>9, <1>10, <1>11, <1>12, <1>13, <1>14, <1>15, <1>16, Zenon DEF ChannelInv

\* A channel in the middle of its authentication is open, and nothing has been told.
LEMMA AuthenticatingFacts ==
  ASSUME ChannelInv, Authenticating
  PROVE  up = TRUE /\ conn = 2 /\ net = "open" /\ told = 0 /\ agentNonce = link
<1>1. net = "open" /\ conn = 2 /\ told = 0 /\ agentNonce = link
  BY DEF ChannelInv, StateIsTrue, CoreToldTruth, Authenticating
<1>2. conn # 0
  BY <1>1
<1>3. up = TRUE
  BY <1>2, Zenon DEF ChannelInv, TypeOK
<1>4. QED
  BY <1>1, <1>3

\* The authentication commands keep the invariant.
LEMMA AuthRequestStep ==
  ASSUME ChannelInv, NEW h \in Certs, NEW n \in ServerNonces, AuthRequest(h, n)
  PROVE  ChannelInv'
<1>1. TypeOK'
  BY Zenon DEF AuthRequest, ChannelInv, TypeOK, linkVars, retryVars
<1>2. StateIsTrue' /\ AuthSound' /\ AuthFresh' /\ CoreToldTruth'
  BY DEF AuthRequest, ChannelInv, StateIsTrue, AuthSound, AuthFresh, CoreToldTruth, linkVars, retryVars
<1>3. NoLostRetry'
  BY Zenon DEF AuthRequest, ChannelInv, NoLostRetry, retryVars
<1>4. QED
  BY <1>1, <1>2, <1>3, Zenon DEF AuthRequest, ChannelInv, linkVars, retryVars

\* A signature that verifies makes the peer the server, for this connection.
LEMMA AuthVerifyStep ==
  ASSUME ChannelInv, NEW sig \in Signatures, AuthVerify(sig)
  PROVE  ChannelInv'
<1>1. up = TRUE /\ conn = 2 /\ net = "open" /\ told = 0 /\ agentNonce = link
  BY AuthenticatingFacts DEF AuthVerify
<1>2. sig.by = "server" /\ sig.cert = peer /\ sig.an = link
  BY <1>1 DEF AuthVerify, Verifies
<1>3. peer \in Genuine
  BY <1>2 DEF Signatures
<1>4. /\ auth' = auth \cup {Server} /\ cached' = peer /\ proof' = link /\ info' = link /\ retry' = 0
      /\ told' = (IF auth' = Both THEN 1 ELSE 0)
      /\ UNCHANGED <<conn, net, slot, asking, link, chan, peer, agentNonce, serverNonce, pong>>
  BY <1>1, <1>2 DEF AuthVerify, SendAgentInfo, ServerAuthenticated
<1>5. UNCHANGED <<up, req, known, gaveUp>>
  BY Zenon DEF AuthVerify
<1>6. TypeOK'
  <2>1. /\ auth' \in SUBSET Both /\ told' \in {0, 1} /\ retry' \in 0 .. (2 * Cap - 1)
        /\ cached' \in Certs \cup {None} /\ proof' \in Links /\ info' \in Links
    BY <1>3, <1>4, CertsAssumption, TimesAssumption DEF ChannelInv, TypeOK, Both
  <2>2. QED
    BY <1>4, <1>5, <2>1, Zenon DEF ChannelInv, TypeOK
<1>7. StateIsTrue' /\ AuthSound' /\ AuthFresh' /\ CoreToldTruth'
  BY <1>3, <1>4, <1>5 DEF ChannelInv, StateIsTrue, AuthSound, AuthFresh, CoreToldTruth
<1>8. conn' # 0 /\ conn' # 1
  BY <1>1, <1>4
<1>9. NoLostRetry'
  BY <1>8, Zenon DEF NoLostRetry
<1>10. QED
  BY <1>1, <1>4, <1>5, <1>6, <1>7, <1>8, <1>9, Zenon DEF ChannelInv

\* The confirmation of the agent tells the core at most once.
LEMMA AuthConfirmStep ==
  ASSUME ChannelInv, AuthConfirm
  PROVE  ChannelInv'
<1>1. up = TRUE /\ conn = 2 /\ net = "open" /\ told = 0 /\ agentNonce = link
  BY AuthenticatingFacts DEF AuthConfirm
<1>2. /\ auth' = auth \cup {Agent}
      /\ told' = (IF auth' = Both THEN 1 ELSE 0)
      /\ UNCHANGED <<conn, net, slot, retry, asking, link, chan, peer, proof, agentNonce,
                     serverNonce, cached, info, pong>>
  BY <1>1 DEF AuthConfirm, ServerAuthenticated, retryVars
<1>3. UNCHANGED <<up, req, known, gaveUp>>
  BY Zenon DEF AuthConfirm, retryVars
<1>4. TypeOK'
  <2>1. auth' \in SUBSET Both /\ told' \in {0, 1}
    BY <1>2 DEF ChannelInv, TypeOK, Both
  <2>2. QED
    BY <1>2, <1>3, <2>1, Zenon DEF ChannelInv, TypeOK
<1>5. Server \in auth' => Server \in auth
  BY <1>2 DEF Server, Agent
<1>6. StateIsTrue' /\ AuthSound' /\ AuthFresh' /\ CoreToldTruth'
  BY <1>2, <1>3, <1>5 DEF ChannelInv, StateIsTrue, AuthSound, AuthFresh, CoreToldTruth
<1>7. conn' # 0 /\ conn' # 1
  BY <1>1, <1>2
<1>8. NoLostRetry'
  BY <1>7, Zenon DEF NoLostRetry
<1>9. QED
  BY <1>1, <1>2, <1>3, <1>4, <1>6, <1>7, <1>8, Zenon DEF ChannelInv

\* A step that only changes the pong timer keeps the invariant.
LEMMA PongStep ==
  ASSUME ChannelInv, pong' \in Links,
         UNCHANGED <<up, retryVars, known, link, linkVars, agentNonce, serverNonce, cached, info>>
  PROVE  ChannelInv'
<1>1. TypeOK'
  BY Zenon DEF ChannelInv, TypeOK, linkVars, retryVars
<1>2. StateIsTrue' /\ AuthSound' /\ AuthFresh' /\ CoreToldTruth'
  BY DEF ChannelInv, StateIsTrue, AuthSound, AuthFresh, CoreToldTruth, linkVars, retryVars
<1>3. NoLostRetry'
  BY Zenon DEF ChannelInv, NoLostRetry, retryVars
<1>4. QED
  BY <1>1, <1>2, <1>3, Zenon DEF ChannelInv, linkVars, retryVars

\* A pong timer that fires, for this connection or for an earlier one, keeps the invariant.
LEMMA PongTimeoutStep ==
  ASSUME ChannelInv, PongTimeout
  PROVE  ChannelInv'
<1>1. pong' \in Links
  BY BoundsAssumption DEF PongTimeout, Links
<1>2. CASE chan = 0
  BY <1>1, <1>2, PongStep DEF PongTimeout
<1>3. CASE chan # 0
  <2>1. conn # 0
    BY <1>3 DEF ChannelInv, StateIsTrue
  <2>2. QED
    BY <1>1, <1>3, <2>1, CompleteStep DEF PongTimeout
<1>4. QED
  BY <1>2, <1>3

\* The ways in which an attempt or a connection ends keep the invariant.
LEMMA EndStep ==
  ASSUME ChannelInv, ConnectFails \/ NetworkError \/ Disconnected \/ MeshAgent_Disconnect
  PROVE  ChannelInv'
<1>1. /\ OnResponse_Complete
      /\ UNCHANGED <<up, link, agentNonce, serverNonce, cached, info, pong>>
  BY Zenon DEF ConnectFails, NetworkError, Disconnected, MeshAgent_Disconnect
<1>2. pong' \in Links
  BY <1>1 DEF ChannelInv, TypeOK
<1>3. CASE conn # 0
  BY <1>1, <1>2, <1>3, CompleteStep
<1>4. CASE conn = 0
  <2>1. net = "idle" /\ chan = 0
    BY <1>4 DEF ChannelInv, StateIsTrue
  <2>2. NetworkError
    BY <2>1 DEF ConnectFails, Disconnected, MeshAgent_Disconnect
  <2>3. req
    BY <2>2, Zenon DEF NetworkError
  <2>4. net = "pending"
    BY <2>3, Zenon DEF ChannelInv, StateIsTrue
  <2>5. QED
    BY <2>1, <2>4
<1>5. QED
  BY <1>3, <1>4

\* Every step keeps the invariant.
LEMMA ChannelStep ==
  ASSUME ChannelInv, [Next]_vars
  PROVE  ChannelInv'
<1>1. ASSUME Start PROVE ChannelInv'
  BY <1>1, StartStep
<1>2. ASSUME Restart PROVE ChannelInv'
  BY <1>2, RestartStep
<1>3. ASSUME ConnectTimer PROVE ChannelInv'
  BY <1>3, ConnectTimerStep
<1>4. ASSUME AutoProxyAnswer PROVE ChannelInv'
  BY <1>4, AutoProxyAnswerStep
<1>5. ASSUME MulticastAnswer PROVE ChannelInv'
  BY <1>5, MulticastAnswerStep
<1>6. ASSUME IPAddressChanged PROVE ChannelInv'
  BY <1>6, IPAddressChangedStep
<1>7. ASSUME ConnectFails \/ NetworkError \/ Disconnected \/ MeshAgent_Disconnect PROVE ChannelInv'
  BY <1>7, EndStep
<1>8. ASSUME AnsweredNot101 PROVE ChannelInv'
  BY <1>8, AnsweredNot101Step
<1>9. ASSUME NEW c \in Certs, OnResponse_Established(c) \/ OnResponse_EstablishedSendError(c)
      PROVE  ChannelInv'
  BY <1>9, EstablishedStep
<1>10. ASSUME NEW h \in Certs, NEW n \in ServerNonces, AuthRequest(h, n) PROVE ChannelInv'
  BY <1>10, AuthRequestStep
<1>11. ASSUME NEW sig \in Signatures, AuthVerify(sig) PROVE ChannelInv'
  BY <1>11, AuthVerifyStep
<1>12. ASSUME AuthConfirm PROVE ChannelInv'
  BY <1>12, AuthConfirmStep
<1>13. ASSUME IdleTimeout \/ PongSink PROVE ChannelInv'
  <2>1. pong' \in Links
    BY <1>13, BoundsAssumption DEF IdleTimeout, PongSink, ChannelInv, TypeOK, Links
  <2>2. QED
    BY <1>13, <2>1, PongStep DEF IdleTimeout, PongSink
<1>14. ASSUME PongTimeout PROVE ChannelInv'
  BY <1>14, PongTimeoutStep
<1>15. ASSUME UNCHANGED vars PROVE ChannelInv'
  BY <1>15, PongStep DEF vars, ChannelInv, TypeOK
<1>16. QED
  BY <1>1, <1>2, <1>3, <1>4, <1>5, <1>6, <1>7, <1>8, <1>9, <1>10, <1>11, <1>12, <1>13, <1>14,
     <1>15 DEF Next

\* The invariant holds when the agent has not been started yet.
LEMMA ChannelInit == Init => ChannelInv
<1> SUFFICES ASSUME Init PROVE ChannelInv
  OBVIOUS
<1>1. up \in BOOLEAN /\ req \in BOOLEAN /\ known \in BOOLEAN /\ gaveUp \in BOOLEAN
  BY Zenon DEF Init
<1>2. /\ conn \in 0 .. 2 /\ net \in {"idle", "pending", "answered", "open", "broken"}
      /\ slot \in {"none", "gc", "connect"} /\ retry \in 0 .. (2 * Cap - 1)
      /\ asking \in 0 .. MaxAsking
      /\ link \in Links /\ chan \in Links /\ peer \in Certs \cup {None}
      /\ auth \in SUBSET Both /\ agentNonce \in Links /\ serverNonce \in ServerNonces
      /\ cached \in Certs \cup {None} /\ proof \in Links /\ told \in {0, 1}
      /\ info \in Links /\ pong \in Links
  BY BoundsAssumption, TimesAssumption DEF Init, Links
<1>3. TypeOK
  BY <1>1, <1>2, Zenon DEF TypeOK
<1>4. StateIsTrue /\ AuthSound /\ AuthFresh /\ CoreToldTruth
  BY DEF Init, StateIsTrue, AuthSound, AuthFresh, CoreToldTruth, Both
<1>5. conn # 1 /\ net # "open"
  BY DEF Init
<1>6. NoLostRetry
  BY <1>5, Zenon DEF Init, NoLostRetry
<1>7. QED
  BY <1>3, <1>4, <1>5, <1>6, Zenon DEF Init, ChannelInv

-----------------------------------------------------------------------------
\* The inductive invariant of the control channel.
THEOREM ChannelInvariant == Spec => []ChannelInv
<1>1. ChannelInv /\ [Next]_vars => ChannelInv'
  BY ChannelStep
<1>2. QED
  BY ChannelInit, <1>1, PTL DEF Spec

\* The agent never stops trying: whenever it is not connected a timer or a lookup is
\* pending, its retry times stay within their bounds, and serverConnectionState and
\* controlChannel describe the connection there is (MeshServer_Connect, _ConnectEx).
THEOREM RetryCorrect == Spec => [](TypeOK /\ StateIsTrue /\ NoLostRetry /\ BackoffBounded)
<1>1. ChannelInv => TypeOK /\ StateIsTrue /\ NoLostRetry /\ BackoffBounded
  <2> SUFFICES ASSUME ChannelInv PROVE BackoffBounded
    BY DEF ChannelInv
  <2>1. slot = "connect" => up
    <3>1. slot = "connect" => slot # "gc"
      OBVIOUS
    <3>2. QED
      BY <3>1, Zenon DEF ChannelInv
  <2>2. QED
    BY <2>1, IdleFacts DEF BackoffBounded
<1>2. QED
  BY ChannelInvariant, <1>1, PTL

\* Whoever is taken for the server holds one of its certificates, or has signed the nonce
\* of this connection; and the core learns of a connection once, when both sides are
\* authenticated and the agent's information has been sent (MeshServer_ProcessCommand).
THEOREM AuthCorrect == Spec => [](AuthSound /\ AuthFresh /\ CoreToldTruth)
<1>1. ChannelInv => AuthSound /\ AuthFresh /\ CoreToldTruth
  BY DEF ChannelInv
<1>2. QED
  BY ChannelInvariant, <1>1, PTL
=============================================================================
