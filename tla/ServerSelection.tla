--------------------------- MODULE ServerSelection ---------------------------
(***************************************************************************)
(* Which server an attempt of the control channel goes to, and how: the    *)
(* middle of MeshServer_ConnectEx in meshcore/agentcore.c.  The setting    *)
(* MeshServer is a list; the agent begins anywhere in it and goes on to    *)
(* the next entry once it has tried the present one without a proxy.  An   *)
(* entry "local" stands for a server that answers to multicast.            *)
(* ControlChannel has the timers and the connection, and of all this only  *)
(* that an attempt is made, put off or given up.                           *)
(***************************************************************************)
EXTENDS Integers

CONSTANTS Settings,   \* possible settings: how many servers and server IDs are listed,
                      \* and which of the servers are "local"
          Randoms     \* what util_random may give, as a signed number

ASSUME SelectionAssumption ==
  /\ Settings \subseteq [servers : Nat \ {0}, ids : Nat \ {0}, local : SUBSET Nat]
  /\ Randoms \subseteq Int

VARIABLES msh,          \* the settings of this agent
          serverIndex,  \* 0 before the first attempt
          triedNoProxy, \* triedNoProxy_Index
          proxyServer,  \* it is not NULL: the last proxy was found
          proxyFailed,  \* the last proxy was not found
          webProxy,     \* the proxy that is set, in the database or in the system
          url,          \* multicastServerUrl is not NULL
          phase,        \* "wait": a retry is pending; "trying": there is a connection or
                        \* an attempt; "gaveUp": neither
          last          \* history: the server that was chosen last, 0 if it has no ID,
                        \* and how it was to be reached; "unread" is by a proxy that
                        \* parseUri has thrown on

vars == <<msh, serverIndex, triedNoProxy, proxyServer, proxyFailed, webProxy, url, phase, last>>

\* The setting of the proxy: none, one that http.parseUri reads, one that it throws on.
WebProxies == {"none", "uri", "unreadable"}

-----------------------------------------------------------------------------
(* The choice.                                                             *)

\* Mutant of Remainder: the last entry is counted twice.
RemainderOver(a, n) == IF a < 0 THEN -((-a) % n) ELSE a % (n + 1)

\* The operator % of C, whose sign is that of a.
Remainder(a, n) == IF a < 0 THEN -((-a) % n) ELSE a % n

\* Mutant of Rotated: the next server counts as tried without a proxy.
RotatedTried == <<Remainder(serverIndex, msh.servers) + 1, Remainder(serverIndex, msh.servers) + 1>>

\* The index and triedNoProxy_Index of the next server of the list.
Rotated == <<Remainder(serverIndex, msh.servers) + 1, Remainder(serverIndex, msh.servers)>>

\* The same for this attempt.
Chosen ==
  IF serverIndex = 0 THEN {<<Remainder(r, msh.servers) + 1, triedNoProxy>> : r \in Randoms}
  ELSE IF triedNoProxy = serverIndex THEN {Rotated}
  ELSE {<<serverIndex, triedNoProxy>>}

\* ILibParseString_GetResultIndex: an index below 1 is the first entry.
Entry(i) == IF i < 1 THEN 1 ELSE i

\* The entry is "local" and nobody has answered: a multicast is sent, and a retry is
\* left to MeshServer_Connect.
AskLocal(i, t, known) ==
  /\ Entry(i) \in msh.local /\ ~known
  /\ phase' = "wait"
  /\ serverIndex' = i /\ triedNoProxy' = t
  /\ UNCHANGED <<proxyServer, proxyFailed, last>>

\* There is no server ID for the index: the message "ServerID Count Mismatch" is the end,
\* and no retry is pending.
NoServerId(i, via) ==
  /\ i > msh.ids
  /\ phase' = "gaveUp"
  /\ last' = [at |-> 0, via |-> via]

\* Without a proxy the name of the server must have an address, now or in the database;
\* otherwise a retry is left to MeshServer_Connect.
Direct(i) ==
  /\ i <= msh.ids
  /\ phase' \in {"wait", "trying"}
  /\ last' = [at |-> Entry(i), via |-> "direct"]

\* http.parseUri has read the proxy, and ILibWebClient_SetProxy2 says whether it has an
\* address.
ProxyRead(i) ==
  /\ webProxy = "uri"
  /\ last' = [at |-> Entry(i), via |-> "proxy"]
  /\ proxyServer' \in BOOLEAN /\ proxyFailed' = ~proxyServer'

\* http.parseUri has thrown: what is noted of the proxy is what was noted before.
ProxyUnread(i) ==
  /\ webProxy = "unreadable"
  /\ last' = [at |-> Entry(i), via |-> "unread"]
  /\ UNCHANGED <<proxyServer, proxyFailed>>

\* With a proxy the request is sent in any case.
ViaProxy(i) ==
  /\ i <= msh.ids
  /\ phase' = "trying"
  /\ ProxyRead(i) \/ ProxyUnread(i)

\* Mutant of FallBack: triedNoProxy_Index is not counted up.
FallBackUncounted(i, t) ==
  /\ t < i /\ (proxyServer \/ proxyFailed)
  /\ triedNoProxy' = t
  /\ proxyServer' = FALSE /\ proxyFailed' = FALSE
  /\ NoServerId(i, "direct") \/ Direct(i)

\* Mutant of FallBack: triedNoProxy_Index is not compared.
FallBackAnyway(i, t) ==
  /\ proxyServer \/ proxyFailed
  /\ triedNoProxy' = t + 1
  /\ proxyServer' = FALSE /\ proxyFailed' = FALSE
  /\ NoServerId(i, "direct") \/ Direct(i)

\* "First attempt with proxy failed, so lets try again without a proxy".
FallBack(i, t) ==
  /\ t < i /\ (proxyServer \/ proxyFailed)
  /\ triedNoProxy' = t + 1
  /\ proxyServer' = FALSE /\ proxyFailed' = FALSE
  /\ NoServerId(i, "direct") \/ Direct(i)

UseProxy(i, t) ==
  /\ ~(t < i /\ (proxyServer \/ proxyFailed))
  /\ triedNoProxy' = t
  /\ (NoServerId(i, "proxy") /\ UNCHANGED <<proxyServer, proxyFailed>>) \/ ViaProxy(i)

\* No proxy is set.
NoProxy(i) ==
  /\ triedNoProxy' = i
  /\ NoServerId(i, "direct") \/ Direct(i)
  /\ UNCHANGED <<proxyServer, proxyFailed>>

Contact(i, t, known) ==
  /\ Entry(i) \notin msh.local \/ known
  /\ serverIndex' = i
  /\ \/ webProxy # "none" /\ (FallBack(i, t) \/ UseProxy(i, t))
     \/ webProxy = "none" /\ NoProxy(i)

\* MeshServer_ConnectEx, from the choice of the server on.
MeshServer_ConnectEx(known) ==
  \E c \in Chosen : AskLocal(c[1], c[2], known) \/ Contact(c[1], c[2], known)

-----------------------------------------------------------------------------
(* What happens.                                                           *)

\* The retry timer.
RetryTimer ==
  /\ phase = "wait"
  /\ MeshServer_ConnectEx(url)
  /\ UNCHANGED <<msh, webProxy, url>>

\* A server answers to the multicast, perhaps long after it was asked; it is believed
\* only when one server ID is set.
MulticastAnswer ==
  /\ msh.ids = 1
  /\ url' = TRUE
  /\ IF phase = "trying"
     THEN UNCHANGED <<serverIndex, triedNoProxy, proxyServer, proxyFailed, phase, last>>
     ELSE MeshServer_ConnectEx(TRUE)
  /\ UNCHANGED <<msh, webProxy>>

\* The attempt fails, or the connection ends.
OnResponse_Complete ==
  /\ phase = "trying"
  /\ phase' = "wait" /\ url' = FALSE
  /\ UNCHANGED <<msh, serverIndex, triedNoProxy, proxyServer, proxyFailed, webProxy, last>>

\* A change of address arms the retry timer.
IPAddressChanged ==
  /\ phase = "gaveUp"
  /\ phase' = "wait"
  /\ UNCHANGED <<msh, serverIndex, triedNoProxy, proxyServer, proxyFailed, webProxy, url, last>>

\* A proxy is set, changed or taken away, by the lookup of a proxy (MeshServer_ConnectEx_AutoProxy)
\* or in the settings of the system, which are read at every attempt.
ProxyChanges ==
  /\ webProxy' \in WebProxies \ {webProxy}
  /\ UNCHANGED <<msh, serverIndex, triedNoProxy, proxyServer, proxyFailed, url, phase, last>>

\* The settings are read when the agent starts.
Init ==
  /\ msh \in Settings
  /\ serverIndex = 0 /\ triedNoProxy = 0 /\ proxyServer = FALSE /\ proxyFailed = FALSE
  /\ webProxy \in WebProxies /\ url = FALSE /\ phase = "wait"
  /\ last = [at |-> 0, via |-> "none"]

Next ==
  \/ RetryTimer \/ MulticastAnswer \/ OnResponse_Complete \/ IPAddressChanged
  \/ ProxyChanges

Spec == Init /\ [][Next]_vars

\* The retry timer fires, and drawing a number again and again gives one that is not
\* negative in the end.
FairSpec ==
  /\ Spec
  /\ WF_vars(RetryTimer)
  /\ SF_vars(RetryTimer /\ serverIndex = 0 /\ serverIndex' > 0)

-----------------------------------------------------------------------------
(* Properties.                                                             *)

Range(n) == (2 - n) .. n

\* The index never exceeds the list: MeshServer_ConnectEx uses the entry it finds without
\* asking whether there is one.
TypeOK ==
  /\ msh \in Settings
  /\ serverIndex = 0 \/ serverIndex \in Range(msh.servers)
  /\ triedNoProxy \in Int
  /\ {proxyServer, proxyFailed, url} \subseteq BOOLEAN /\ webProxy \in WebProxies
  /\ phase \in {"wait", "trying", "gaveUp"}
  /\ last \in [at : Nat, via : {"none", "direct", "proxy", "unread"}]

\* triedNoProxy_Index never passes the server: the agent goes on to the next server when
\* the two are equal, and would never do so once the one is ahead.
NeverAhead == serverIndex > 0 => triedNoProxy <= serverIndex

\* "First attempt with proxy failed, so lets try again without a proxy": the agent does
\* not choose a proxy, readable or not, right after one that parseUri has read, whatever
\* becomes of the proxy's setting meanwhile and whoever answers, as long as the first
\* number drawn gave a server of the list.  After a proxy that parseUri has thrown on the
\* agent does choose it again: nothing notes that the attempt has failed.
DirectAfterProxy ==
  [][last.via = "proxy" /\ phase # "trying" /\ phase' = "trying" /\ serverIndex > 0
       => last'.via = "direct"]_vars

Entries == UNION {1 .. m.servers : m \in Settings}

\* Every server of the list is tried again and again.  What may stop that: a connection
\* that stays, a missing server ID, a "local" server that does not answer, a negative
\* first number with a proxy, after which the index never changes again, and a proxy that
\* parseUri throws on at every attempt from some time on, with which the agent stays.
EveryServerTried ==
  \/ \A s \in Entries : <>[](s > msh.servers) \/ []<>(last.at = s)
  \/ <>[](phase = "trying")
  \/ []<>(phase = "gaveUp")
  \/ <>[](phase # "trying" /\ Entry(serverIndex) \in msh.local)
  \/ <>[](serverIndex < 0)
  \/ <>[](last.via = "unread")
=============================================================================
