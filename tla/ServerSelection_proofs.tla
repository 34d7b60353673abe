------------------------ MODULE ServerSelection_proofs ------------------------
(* Proofs about ServerSelection, for every list of servers and every random number. *)
EXTENDS ServerSelection, TLAPS

\* An index of the list, or one that C's remainder of a negative number gives.
IndexOk(i) == i \in Int /\ (i = 0 \/ i \in Range(msh.servers))

\* triedNoProxy_Index is behind a server of the list or at it.
Behind(i, t) == t \in Int /\ (i >= 0 => t <= i)

\* After the proxy was chosen and read: it was found or not, the server has not been tried
\* without it, and if the server has no ID, that is why none was contacted.
ProxyNoted ==
  last.via = "proxy" =>
    /\ last.at = 0 => serverIndex > msh.ids
    /\ last.at # 0 => proxyServer \/ proxyFailed
    /\ serverIndex > 0 => triedNoProxy < serverIndex

\* The inductive invariant.
SelectionInv ==
  /\ TypeOK
  /\ Behind(serverIndex, triedNoProxy)
  /\ ProxyNoted

-----------------------------------------------------------------------------
\* The remainder of C is less than the number of servers, whatever its sign.
LEMMA RemainderRange ==
  ASSUME NEW a \in Int, NEW n \in Nat \ {0}
  PROVE  Remainder(a, n) \in (1 - n) .. (n - 1)
<1>1. \A x \in Int : x % n \in 0 .. (n - 1)
  OBVIOUS
<1>2. CASE a < 0
  BY <1>1, <1>2 DEF Remainder
<1>3. CASE ~(a < 0)
  BY <1>1, <1>3 DEF Remainder
<1>4. QED
  BY <1>2, <1>3

\* What is known of the settings.
LEMMA MshOk ==
  ASSUME TypeOK
  PROVE  msh.servers \in Nat \ {0} /\ msh.ids \in Nat \ {0}
BY SelectionAssumption DEF TypeOK

\* The server of an attempt has not been tried without a proxy, and it is another one than
\* before only when the one before has, or when there was none.
LEMMA ChosenOk ==
  ASSUME SelectionInv, NEW c \in Chosen
  PROVE  /\ IndexOk(c[1]) /\ Behind(c[1], c[2])
         /\ c[1] > 0 => c[2] < c[1]
         /\ \/ c = <<serverIndex, triedNoProxy>>
            \/ serverIndex = 0 /\ c[2] = triedNoProxy
            \/ triedNoProxy = serverIndex /\ serverIndex # 0
<1>0. /\ msh.servers \in Nat \ {0} /\ serverIndex \in Int /\ triedNoProxy \in Int
      /\ serverIndex = 0 \/ serverIndex \in Range(msh.servers)
      /\ serverIndex >= 0 => triedNoProxy <= serverIndex
  BY MshOk DEF SelectionInv, TypeOK, Behind, Range
<1>1. CASE serverIndex = 0
  <2>1. PICK r \in Randoms : c = <<Remainder(r, msh.servers) + 1, triedNoProxy>>
    BY <1>1 DEF Chosen
  <2>2. Remainder(r, msh.servers) \in (1 - msh.servers) .. (msh.servers - 1)
    BY <1>0, RemainderRange, SelectionAssumption
  <2>3. QED
    BY <1>0, <1>1, <2>1, <2>2 DEF IndexOk, Behind, Range
<1>2. CASE serverIndex # 0 /\ triedNoProxy = serverIndex
  <2>1. c = Rotated
    BY <1>2 DEF Chosen
  <2>2. Remainder(serverIndex, msh.servers) \in (1 - msh.servers) .. (msh.servers - 1)
    BY <1>0, RemainderRange
  <2>3. QED
    BY <1>0, <1>2, <2>1, <2>2 DEF Rotated, IndexOk, Behind, Range
<1>3. CASE serverIndex # 0 /\ triedNoProxy # serverIndex
  <2>1. c = <<serverIndex, triedNoProxy>>
    BY <1>3 DEF Chosen
  <2>2. QED
    BY <1>0, <1>3, <2>1 DEF IndexOk, Behind
<1>4. QED
  BY <1>1, <1>2, <1>3

\* The types of the flags, one by one.
LEMMA TypeParts ==
  ASSUME msh' = msh, msh \in Settings, IndexOk(serverIndex'), triedNoProxy' \in Int,
         proxyServer' \in BOOLEAN, proxyFailed' \in BOOLEAN, webProxy' \in WebProxies,
         url' \in BOOLEAN, phase' \in {"wait", "trying", "gaveUp"},
         last' \in [at : Nat, via : {"none", "direct", "proxy", "unread"}]
  PROVE  TypeOK'
<1>1. {proxyServer', proxyFailed', url'} \subseteq BOOLEAN
  OBVIOUS
<1>2. serverIndex' = 0 \/ serverIndex' \in Range(msh'.servers)
  BY DEF IndexOk
<1>3. QED
  BY <1>1, <1>2, Zenon DEF TypeOK

\* Every way through MeshServer_ConnectEx keeps the invariant.
LEMMA InvConnect ==
  ASSUME SelectionInv, NEW known, MeshServer_ConnectEx(known),
         msh' = msh, webProxy' = webProxy, url' \in BOOLEAN
  PROVE  SelectionInv'
<1>1. PICK c \in Chosen : AskLocal(c[1], c[2], known) \/ Contact(c[1], c[2], known)
  BY DEF MeshServer_ConnectEx
<1> DEFINE i == c[1]
           t == c[2]
<1>2. /\ IndexOk(i) /\ Behind(i, t)
      /\ i > 0 => t < i
      /\ \/ c = <<serverIndex, triedNoProxy>>
         \/ serverIndex = 0 /\ t = triedNoProxy
         \/ triedNoProxy = serverIndex /\ serverIndex # 0
  BY ChosenOk
<1>3. msh.servers \in Nat \ {0} /\ msh.ids \in Nat \ {0}
  BY MshOk DEF SelectionInv
<1>4. /\ msh \in Settings /\ proxyServer \in BOOLEAN /\ proxyFailed \in BOOLEAN
      /\ webProxy \in WebProxies
      /\ last \in [at : Nat, via : {"none", "direct", "proxy", "unread"}]
      /\ serverIndex \in Int /\ triedNoProxy \in Int
  <2>1. /\ msh \in Settings /\ {proxyServer, proxyFailed, url} \subseteq BOOLEAN
        /\ webProxy \in WebProxies
        /\ last \in [at : Nat, via : {"none", "direct", "proxy", "unread"}]
    BY Zenon DEF SelectionInv, TypeOK
  <2>2. serverIndex \in Int /\ triedNoProxy \in Int
    BY <1>3 DEF SelectionInv, TypeOK, Range
  <2>3. QED
    BY <2>1, <2>2
<1> HIDE DEF i, t
<1>5. CASE AskLocal(i, t, known)
  <2>1. /\ phase' = "wait" /\ serverIndex' = i /\ triedNoProxy' = t
        /\ proxyServer' = proxyServer /\ proxyFailed' = proxyFailed /\ last' = last
    BY <1>5 DEF AskLocal
  <2>2. TypeOK'
    BY <1>2, <1>4, <2>1, TypeParts DEF Behind
  <2>3. Behind(serverIndex', triedNoProxy')
    BY <1>2, <2>1
  <2>4. last.via = "proxy" /\ last.at = 0 => i > msh.ids
    BY <1>2, <1>3, <1>4 DEF SelectionInv, ProxyNoted, i, t
  <2>5. last.via = "proxy" /\ last.at # 0 => proxyServer \/ proxyFailed
    BY Zenon DEF SelectionInv, ProxyNoted
  <2>6. ProxyNoted'
    BY <1>2, <2>1, <2>4, <2>5 DEF ProxyNoted
  <2>7. QED
    BY <2>2, <2>3, <2>6 DEF SelectionInv, Behind
<1>6. CASE Contact(i, t, known)
  <2>1. serverIndex' = i
    BY <1>6 DEF Contact
  <2>2. Entry(i) \in Nat \ {0}
    BY <1>2 DEF Entry, IndexOk
  <2>3. CASE FallBack(i, t)
    <3>1. /\ triedNoProxy' = t + 1 /\ t < i
          /\ proxyServer' = FALSE /\ proxyFailed' = FALSE
          /\ phase' \in {"wait", "trying", "gaveUp"}
          /\ last'.via = "direct" /\ last' \in [at : Nat, via : {"none", "direct", "proxy", "unread"}]
      BY <2>2, <2>3 DEF FallBack, NoServerId, Direct
    <3>2. triedNoProxy' \in Int /\ Behind(i, triedNoProxy')
      BY <1>2, <3>1 DEF Behind, IndexOk
    <3>3. TypeOK'
      BY <1>2, <1>4, <2>1, <3>1, <3>2, TypeParts
    <3>4. QED
      BY <2>1, <3>1, <3>2, <3>3 DEF SelectionInv, ProxyNoted, Behind
  <2>4. CASE UseProxy(i, t)
    <3>1. triedNoProxy' = t
      BY <2>4 DEF UseProxy
    <3>2. CASE NoServerId(i, "proxy") /\ UNCHANGED <<proxyServer, proxyFailed>>
      <4>1. /\ i > msh.ids /\ phase' = "gaveUp" /\ last' = [at |-> 0, via |-> "proxy"]
            /\ proxyServer' = proxyServer /\ proxyFailed' = proxyFailed
        BY <3>2 DEF NoServerId
      <4>2. last' \in [at : Nat, via : {"none", "direct", "proxy", "unread"}] /\ last'.at = 0
        BY <4>1
      <4>3. TypeOK'
        BY <1>2, <1>4, <2>1, <3>1, <4>1, <4>2, TypeParts DEF Behind
      <4>4. QED
        BY <1>2, <1>3, <2>1, <3>1, <4>1, <4>2, <4>3 DEF SelectionInv, ProxyNoted, Behind
    <3>3. CASE ViaProxy(i)
      <4>1. /\ phase' = "trying" /\ last'.via \in {"proxy", "unread"}
            /\ last' = [at |-> Entry(i), via |-> last'.via]
        BY <3>3 DEF ViaProxy, ProxyRead, ProxyUnread
      <4>2. /\ proxyServer' \in BOOLEAN /\ proxyFailed' \in BOOLEAN
            /\ last'.via = "proxy" => proxyServer' \/ proxyFailed'
        <5>1. CASE ProxyRead(i)
          BY <5>1 DEF ProxyRead
        <5>2. CASE ProxyUnread(i)
          <6>1. proxyServer' \in BOOLEAN /\ proxyFailed' \in BOOLEAN
            BY <1>4, <5>2, Zenon DEF ProxyUnread
          <6>2. last'.via = "unread"
            BY <5>2 DEF ProxyUnread
          <6>3. QED
            BY <6>1, <6>2
        <5>3. QED
          BY <3>3, <5>1, <5>2 DEF ViaProxy
      <4>3. last' \in [at : Nat, via : {"none", "direct", "proxy", "unread"}] /\ last'.at # 0
        BY <2>2, <4>1
      <4>4. TypeOK'
        BY <1>2, <1>4, <2>1, <3>1, <4>1, <4>2, <4>3, TypeParts DEF Behind
      <4>5. ProxyNoted'
        BY <1>2, <2>1, <3>1, <4>2, <4>3 DEF ProxyNoted
      <4>6. QED
        BY <1>2, <2>1, <3>1, <4>4, <4>5 DEF SelectionInv, Behind
    <3>4. QED
      BY <2>4, <3>2, <3>3 DEF UseProxy
  <2>5. CASE NoProxy(i)
    <3>1. /\ triedNoProxy' = i
          /\ proxyServer' = proxyServer /\ proxyFailed' = proxyFailed
          /\ phase' \in {"wait", "trying", "gaveUp"}
          /\ last'.via = "direct" /\ last' \in [at : Nat, via : {"none", "direct", "proxy", "unread"}]
      BY <2>2, <2>5 DEF NoProxy, NoServerId, Direct
    <3>2. triedNoProxy' \in Int /\ Behind(i, triedNoProxy')
      BY <1>2, <3>1 DEF Behind, IndexOk
    <3>3. TypeOK'
      BY <1>2, <1>4, <2>1, <3>1, <3>2, TypeParts
    <3>4. QED
      BY <2>1, <3>1, <3>2, <3>3 DEF SelectionInv, ProxyNoted, Behind
  <2>6. QED
    BY <1>6, <2>3, <2>4, <2>5 DEF Contact
<1>7. QED
  BY <1>1, <1>5, <1>6 DEF i, t

-----------------------------------------------------------------------------
\* The inductive invariant of the choice of servers, for every list of servers and every
\* sequence of random numbers (serverIndex and triedNoProxy_Index in MeshServer_ConnectEx).
THEOREM SelectionInvariant == Spec => []SelectionInv
<1>1. Init => SelectionInv
  <2> SUFFICES ASSUME Init PROVE SelectionInv
    OBVIOUS
  <2>1. TypeOK
    <3>1. {proxyServer, proxyFailed, url} \subseteq BOOLEAN
      BY DEF Init
    <3>2. last \in [at : Nat, via : {"none", "direct", "proxy", "unread"}]
      BY DEF Init
    <3>3. webProxy \in WebProxies /\ msh \in Settings /\ serverIndex = 0 /\ triedNoProxy \in Int /\ phase = "wait"
      BY DEF Init
    <3>4. QED
      BY <3>1, <3>2, <3>3, Zenon DEF TypeOK
  <2>2. QED
    BY <2>1 DEF Init, SelectionInv, Behind, ProxyNoted
<1>2. SelectionInv /\ [Next]_vars => SelectionInv'
  <2> SUFFICES ASSUME SelectionInv, [Next]_vars PROVE SelectionInv'
    OBVIOUS
  <2>0. {proxyServer, proxyFailed, url} \subseteq BOOLEAN
    BY Zenon DEF SelectionInv, TypeOK
  <2>1. CASE RetryTimer
    BY <2>0, <2>1, InvConnect DEF RetryTimer
  <2>2. CASE MulticastAnswer
    <3>1. CASE phase = "trying"
      <4>1. /\ url' = TRUE
            /\ UNCHANGED <<msh, serverIndex, triedNoProxy, proxyServer, proxyFailed, webProxy,
                           phase, last>>
        BY <2>2, <3>1 DEF MulticastAnswer
      <4>2. {proxyServer', proxyFailed', url'} \subseteq BOOLEAN
        BY <2>0, <4>1
      <4>3. QED
        BY <4>1, <4>2, Zenon DEF SelectionInv, TypeOK, Behind, ProxyNoted
    <3>2. CASE phase # "trying"
      BY <2>2, <3>2, InvConnect DEF MulticastAnswer
    <3>3. QED
      BY <3>1, <3>2
  <2>3. CASE OnResponse_Complete
    <3>1. /\ url' = FALSE /\ phase' = "wait"
          /\ UNCHANGED <<msh, serverIndex, triedNoProxy, proxyServer, proxyFailed, webProxy, last>>
      BY <2>3 DEF OnResponse_Complete
    <3>2. {proxyServer', proxyFailed', url'} \subseteq BOOLEAN
      BY <2>0, <3>1
    <3>3. QED
      BY <3>1, <3>2, Zenon DEF SelectionInv, TypeOK, Behind, ProxyNoted
  <2>4. CASE IPAddressChanged
    BY <2>4, Zenon DEF IPAddressChanged, SelectionInv, TypeOK, Behind, ProxyNoted
  <2>5. CASE ProxyChanges
    <3>1. /\ webProxy' \in WebProxies
          /\ UNCHANGED <<msh, serverIndex, triedNoProxy, proxyServer, proxyFailed, url, phase, last>>
      BY <2>5 DEF ProxyChanges
    <3>2. {proxyServer', proxyFailed', url'} \subseteq BOOLEAN
      BY <2>0, <3>1
    <3>3. QED
      BY <3>1, <3>2, Zenon DEF SelectionInv, TypeOK, Behind, ProxyNoted
  <2>6. CASE UNCHANGED vars
    BY <2>6, Zenon DEF vars, SelectionInv, TypeOK, Behind, ProxyNoted
  <2>7. QED
    BY <2>1, <2>2, <2>3, <2>4, <2>5, <2>6 DEF Next
<1>3. QED
  BY <1>1, <1>2, PTL DEF Spec

\* The index never exceeds the list, whose entry MeshServer_ConnectEx uses without a test,
\* and the agent never misses the moment to go on to the next server.
THEOREM IndexCorrect == Spec => [](TypeOK /\ NeverAhead)
<1>1. SelectionInv => TypeOK /\ NeverAhead
  BY MshOk DEF SelectionInv, TypeOK, NeverAhead, Behind, Range
<1>2. QED
  BY <1>1, SelectionInvariant, PTL

\* A proxy that was read and did not lead to a connection is followed by an attempt
\* without one, for every list and however the proxy's setting changes meanwhile.
THEOREM ProxyFallsBack == Spec => DirectAfterProxy
<1> DEFINE A == last.via = "proxy" /\ phase # "trying" /\ phase' = "trying"
                  /\ serverIndex > 0 => last'.via = "direct"
<1>1. SelectionInv /\ [Next]_vars => [A]_vars
  <2> SUFFICES ASSUME SelectionInv, Next, last.via = "proxy", phase # "trying",
                      phase' = "trying", serverIndex > 0, last'.via # "direct"
               PROVE  FALSE
    OBVIOUS
  <2>0. msh.ids \in Nat \ {0} /\ msh.servers \in Nat \ {0}
    BY MshOk DEF SelectionInv
  <2>1. serverIndex \in Int /\ triedNoProxy \in Int /\ serverIndex > 0
    BY <2>0 DEF SelectionInv, TypeOK, Range
  <2>2. triedNoProxy < serverIndex /\ Chosen = {<<serverIndex, triedNoProxy>>}
    BY <2>1 DEF SelectionInv, ProxyNoted, Chosen
  <2>3. \E known \in BOOLEAN : MeshServer_ConnectEx(known)
    <3>1. RetryTimer \/ MulticastAnswer
      BY DEF Next, OnResponse_Complete, IPAddressChanged, ProxyChanges
    <3>2. url \in BOOLEAN
      BY Zenon DEF SelectionInv, TypeOK
    <3>3. QED
      BY <3>1, <3>2 DEF RetryTimer, MulticastAnswer
  <2>4. \E known \in BOOLEAN : Contact(serverIndex, triedNoProxy, known)
    BY <2>2, <2>3 DEF MeshServer_ConnectEx, AskLocal
  <2>5. UseProxy(serverIndex, triedNoProxy)
    BY <2>4 DEF Contact, FallBack, NoProxy, NoServerId, Direct
  <2>6. serverIndex <= msh.ids /\ ~(proxyServer \/ proxyFailed)
    BY <2>2, <2>5 DEF UseProxy, NoServerId, ViaProxy
  <2>7. QED
    BY <2>0, <2>1, <2>6 DEF SelectionInv, ProxyNoted
<1>2. QED
  BY <1>1, SelectionInvariant, PTL DEF Spec, DirectAfterProxy
=============================================================================
