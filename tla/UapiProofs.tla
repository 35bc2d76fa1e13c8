------------------------------ MODULE UapiProofs ------------------------------
(***************************************************************************)
(* Proofs about UAPI: the device its commands configure, for any keys,     *)
(* networks, settings and clients, and the transport they arrive on.       *)
(*                                                                         *)
(* ConfigInv is inductive for DeviceConfig.  Beyond the properties it says *)
(* that indexes are never handed out twice, that a claim and a route are   *)
(* the same fact, that a section carries its own peer's values, and that   *)
(* the MTU monitor, while it waits, holds the last reading.  Admission and *)
(* FramesKept are the transport's, below.                                  *)
(***************************************************************************)
EXTENDS DeviceConfig, ApiTransport, WellFoundedInduction, FiniteSetTheorems, TLAPS

Section ==
  [remove: BOOLEAN, update_only: BOOLEAN, replace: BOOLEAN,
   attrs: [Attrs -> Keys \cup {None}], ips: SUBSET Networks]

Transaction ==
  [at: {"idle", "device", "peer", "done", "failed"},
   awg: [Params -> Values \cup {None}], key: Keys \cup {None}, sec: Section, unread: BOOLEAN]

ConfigType ==
  /\ peers \in [Keys -> Peer \cup {None}]
  /\ byIp \in [Networks -> Nat]
  /\ keyPair \in PrivateKeys \cup {None}
  /\ limiter \in Nat /\ nextIndex \in Nat /\ mtu \in Nat \ {0} /\ refresh \in Nat
  /\ settings \in Settings
  /\ txn \in Transaction
  /\ claim \in [Networks -> Keys \cup {None}]
  /\ client \in Clients

\* The indexes of peers are distinct, handed out, and all that is routed.
IndexesOwn ==
  /\ \A k \in Live : peers[k].index \in 1..nextIndex
  /\ \A j, k \in Live : peers[j].index = peers[k].index => j = k
  /\ byIdx = {peers[k].index : k \in Live}

\* The peer a network was last given to is the one it routes to.
RoutesOwn ==
  \A net \in Networks :
    /\ byIp[net] \in byIdx \cup {0}
    /\ \A k \in Keys : claim[net] = k <=> (k \in Live /\ byIp[net] = peers[k].index)

\* Between sections and within one, only the named peer's values are held.
SectionOwn ==
  txn.at = "peer" => txn.key \in Keys /\ \A a \in Attrs : txn.sec.attrs[a] \in {None, txn.key}

\* From the first public_key= on the AmneziaWG values sent are in force.
Staged ==
  txn.at = "peer" \/ (txn.at = "done" /\ ~txn.unread) =>
    \A p \in Params : txn.awg[p] # None => settings.params[p] = txn.awg[p]

MonitorHolds == (IF refresh = 0 THEN settings.mtu ELSE refresh) = Saturated(mtu)

ConfigInv ==
  ConfigType /\ IndexesOwn /\ RoutesOwn /\ SectionOwn /\ Staged /\ MonitorHolds /\ PeersFollowDevice

-------------------------------------------------------------------------------
\* The bounds of what a behaviour's client sends.
LEMMA LinesSent ==
  ASSUME ConfigType
  PROVE  /\ client.attrs \subseteq Attrs /\ client.ips \subseteq AllowedIps
         /\ client.keys \subseteq PrivateKeys /\ client.values \subseteq Values
         /\ client.mtus \subseteq Nat \ {0}
BY ConfigAssumption, Zenon DEF ConfigType

\* The clamp is a positive number of at most sixteen bits.
LEMMA SaturatedType ==
  ASSUME NEW m \in Nat \ {0}
  PROVE  Saturated(m) \in Nat \ {0}
BY ConfigAssumption, Zenon DEF Saturated

\* A transaction begins with nothing collected.
LEMMA IdleType == Idle \in Transaction /\ Idle.at = "idle" /\ ~Idle.unread
BY Zenon DEF Idle, Transaction, Section, PeerSection, Unset

\* A peer section begins with nothing collected.
LEMMA SectionType == PeerSection \in Section /\ \A a \in Attrs : PeerSection.attrs[a] = None
BY Zenon DEF Section, PeerSection

\* A new device satisfies the invariant.
LEMMA ConfigInit == Init => ConfigInv
<1> SUFFICES ASSUME Init PROVE ConfigInv
  BY Zenon
<1>1. client \in Clients /\ client.mtus \subseteq Nat \ {0} /\ mtu \in Nat \ {0}
  BY ConfigAssumption, Zenon DEF Init
<1>2. settings \in Settings /\ settings.mtu = Saturated(mtu)
  BY <1>1, SaturatedType, ConfigAssumption, Zenon DEF Init, Settings
<1>3. Live = {}
  BY Zenon DEF Init, Live
<1>4. ConfigType
  BY <1>1, <1>2, IdleType, Zenon DEF Init, ConfigType
<1>5. IndexesOwn /\ RoutesOwn /\ PeersFollowDevice
  BY <1>3, ConfigAssumption, Zenon DEF Init, IndexesOwn, RoutesOwn, PeersFollowDevice
<1>6. SectionOwn /\ Staged
  BY IdleType, Zenon DEF Init, SectionOwn, Staged
<1>7. MonitorHolds
  BY <1>2, Zenon DEF Init, MonitorHolds
<1> QED BY <1>4, <1>5, <1>6, <1>7, Zenon DEF ConfigInv

\* What rewrites peers in place, and moves neither an index nor a network,
\* keeps the maps in agreement.
LEMMA PeersRewritten ==
  ASSUME ConfigType, IndexesOwn, RoutesOwn,
         UNCHANGED <<byIdx, byIp, nextIndex, claim>>,
         \A k \in Keys : /\ peers'[k] = None <=> peers[k] = None
                         /\ peers[k] # None => peers'[k].index = peers[k].index
  PROVE  IndexesOwn' /\ RoutesOwn' /\ Live' = Live
<1>1. Live' = Live
  BY Zenon DEF Live
<1>2. \A k \in Live : peers'[k].index = peers[k].index
  BY Zenon DEF Live
<1>3. IndexesOwn'
  BY <1>1, <1>2 DEF IndexesOwn
<1>4. RoutesOwn'
  BY <1>1, <1>2 DEF RoutesOwn
<1> QED BY <1>1, <1>3, <1>4, Zenon

\* A line that is only collected, or a status: nothing of the device moves.
LEMMA QuietKeeps ==
  ASSUME ConfigInv, UNCHANGED <<peers, byIdx, byIp, keyPair, limiter, settings, nextIndex, mtu,
                                refresh, claim, client>>,
         txn' \in Transaction, SectionOwn', Staged'
  PROVE  ConfigInv'
<1>1. ConfigType'
  BY Zenon DEF ConfigInv, ConfigType
<1>2. IndexesOwn' /\ RoutesOwn' /\ Live' = Live
  BY PeersRewritten, Zenon DEF ConfigInv
<1>3. PeersFollowDevice' /\ MonitorHolds'
  BY <1>2, Zenon DEF ConfigInv, PeersFollowDevice, MonitorHolds
<1> QED BY <1>1, <1>2, <1>3, Zenon DEF ConfigInv

\* The steps that only read lines or refuse keep the invariant.
LEMMA QuietStep ==
  ASSUME ConfigInv, UNCHANGED client,
         \/ Set \/ Reply \/ BadLine \/ Unreadable \/ AwgRefused
         \/ \E p \in Params, v \in client.values : AwgLine(p, v)
  PROVE  ConfigInv'
<1>0. txn \in Transaction /\ SectionOwn /\ Staged
  BY Zenon DEF ConfigInv, ConfigType
<1>1. CASE Set
  <2>1. txn' \in Transaction /\ txn'.at = "device"
    BY <1>1, IdleType, Zenon DEF Set, Transaction
  <2> QED BY <1>1, <2>1, QuietKeeps, Zenon DEF Set, SectionOwn, Staged
<1>2. CASE Reply
  <2>1. txn' \in Transaction /\ txn'.at = "idle"
    BY <1>2, IdleType, Zenon DEF Reply
  <2> QED BY <1>2, <2>1, QuietKeeps, Zenon DEF Reply, SectionOwn, Staged
<1>3. CASE BadLine \/ AwgRefused
  <2>1. txn' \in Transaction /\ txn'.at = "failed"
    BY <1>0, <1>3, Zenon DEF BadLine, AwgRefused, Fail, Transaction
  <2> QED BY <1>3, <2>1, QuietKeeps, Zenon DEF BadLine, AwgRefused, Fail, SectionOwn, Staged
<1>4. CASE Unreadable
  <2>1. txn' \in Transaction /\ txn'.at = "done" /\ txn'.unread
    BY <1>0, <1>4, Zenon DEF Unreadable, Transaction
  <2> QED BY <1>4, <2>1, QuietKeeps, Zenon DEF Unreadable, SectionOwn, Staged
<1>5. ASSUME NEW p \in Params, NEW v \in client.values, AwgLine(p, v)
      PROVE  ConfigInv'
  <2>1. v \in Values
    BY LinesSent, Zenon DEF ConfigInv
  <2>2. txn' \in Transaction /\ txn'.at = "device"
    BY <1>0, <1>5, <2>1, Zenon DEF AwgLine, Transaction
  <2> QED BY <1>5, <2>2, QuietKeeps, Zenon DEF AwgLine, SectionOwn, Staged
<1> QED BY <1>1, <1>2, <1>3, <1>4, <1>5, Zenon

\* The lines of a section: each holds its own peer's value, and a network
\* truncated as the index keeps it.
LEMMA SectionStep ==
  ASSUME ConfigInv, UNCHANGED client, SectionLine
  PROVE  ConfigInv'
<1>0. txn \in Transaction /\ SectionOwn /\ Staged /\ txn.at = "peer"
  BY Zenon DEF ConfigInv, ConfigType, SectionLine
<1>1. txn.key \in Keys
  BY <1>0, Zenon DEF SectionOwn
<1>2. /\ txn' \in Transaction /\ txn'.at = "peer" /\ txn'.key = txn.key /\ txn'.awg = txn.awg
      /\ \A a \in Attrs : txn'.sec.attrs[a] \in {None, txn.key}
  <2>1. CASE \E b \in BOOLEAN : txn' = [txn EXCEPT !.sec.remove = b]
    BY <1>0, <2>1 DEF Transaction, Section, SectionOwn
  <2>2. CASE txn' = [txn EXCEPT !.sec.update_only = TRUE]
    BY <1>0, <2>2, Zenon DEF Transaction, Section, SectionOwn
  <2>3. CASE \E b \in BOOLEAN : txn' = [txn EXCEPT !.sec.replace = b]
    BY <1>0, <2>3 DEF Transaction, Section, SectionOwn
  <2>4. CASE \E a \in client.attrs : txn' = [txn EXCEPT !.sec.attrs[a] = txn.key]
    BY <1>0, <1>1, <2>4, LinesSent DEF ConfigInv, Transaction, Section, SectionOwn
  <2>5. CASE \E ip \in client.ips : txn' = [txn EXCEPT !.sec.ips = @ \cup {NewTruncate(ip)}]
    <3>1. PICK ip \in client.ips : txn' = [txn EXCEPT !.sec.ips = @ \cup {NewTruncate(ip)}]
      BY <2>5, Zenon
    <3>2. NewTruncate(ip) \in Networks
      BY LinesSent, Zenon DEF ConfigInv, Networks
    <3> QED BY <1>0, <3>1, <3>2, Zenon DEF Transaction, Section, SectionOwn
  <2> QED BY <2>1, <2>2, <2>3, <2>4, <2>5, Zenon DEF SectionLine
<1>3. SectionOwn'
  BY <1>1, <1>2, Zenon DEF SectionOwn
<1>4. Staged'
  BY <1>0, <1>2, Zenon DEF Staged, SectionLine
<1> QED BY <1>2, <1>3, <1>4, QuietKeeps, Zenon DEF SectionLine

\* set_key reaches every peer with the limiter built for it.
LEMMA SetKeyStep ==
  ASSUME ConfigInv, UNCHANGED client, NEW private \in client.keys, SetKey(private)
  PROVE  ConfigInv'
<1>0. ConfigType /\ private \in PrivateKeys
  BY LinesSent, Zenon DEF ConfigInv
<1>1. \A k \in Keys : peers[k] # None => peers'[k] \in Peer
  <2> SUFFICES ASSUME NEW k \in Keys, peers[k] # None PROVE peers'[k] \in Peer
    BY Zenon
  <2>1. peers[k] \in Peer /\ limiter + 1 \in Nat
    BY <1>0 DEF ConfigType
  <2>2. peers'[k] = [peers[k] EXCEPT !.private = private, !.limiter = limiter + 1]
    BY Zenon DEF SetKey
  <2> QED BY <1>0, <2>1, <2>2, Zenon DEF Peer
<1>2. \A k \in Keys : /\ peers'[k] = None <=> peers[k] = None
                      /\ peers[k] # None => /\ peers'[k].index = peers[k].index
                                            /\ peers'[k].attrs = peers[k].attrs
                                            /\ peers'[k].settings = peers[k].settings
                                            /\ peers'[k].private = private
                                            /\ peers'[k].limiter = limiter + 1
  <2>1. \A k \in Keys : peers'[k] = None <=> peers[k] = None
    BY <1>1, ConfigAssumption, Zenon DEF SetKey
  <2>2. ASSUME NEW k \in Keys, peers[k] # None
        PROVE  /\ peers'[k].index = peers[k].index
               /\ peers'[k].attrs = peers[k].attrs
               /\ peers'[k].settings = peers[k].settings
               /\ peers'[k].private = private
               /\ peers'[k].limiter = limiter + 1
    <3>1. peers[k] \in Peer
      BY <1>0, <2>2, Zenon DEF ConfigType
    <3>2. peers'[k] = [peers[k] EXCEPT !.private = private, !.limiter = limiter + 1]
      BY <2>2, Zenon DEF SetKey
    <3> QED BY <3>1, <3>2, Zenon DEF Peer
  <2> QED BY <2>1, <2>2, Zenon
<1>3. ConfigType'
  <2>1. peers' \in [Keys -> Peer \cup {None}]
    <3>1. peers' = [k \in Keys |-> peers'[k]]
      BY Zenon DEF SetKey
    <3>2. \A k \in Keys : peers'[k] \in Peer \cup {None}
      BY <1>1, Zenon DEF SetKey
    <3> QED BY <3>1, <3>2, Zenon
  <2>2. keyPair' \in PrivateKeys /\ limiter' \in Nat
    <3>1. keyPair' = private /\ limiter' = limiter + 1
      BY Zenon DEF SetKey
    <3>2. limiter \in Nat
      BY <1>0, Zenon DEF ConfigType
    <3> QED BY <1>0, <3>1, <3>2
  <2>3. UNCHANGED <<byIp, settings, nextIndex, mtu, refresh, txn, claim, client>>
    BY Zenon DEF SetKey
  <2> QED BY <1>0, <2>1, <2>2, <2>3, Zenon DEF ConfigType
<1>4. IndexesOwn' /\ RoutesOwn' /\ Live' = Live
  BY <1>0, <1>2, PeersRewritten, Zenon DEF ConfigInv, SetKey
<1>5. PeersFollowDevice'
  BY <1>2, <1>4, Zenon DEF ConfigInv, PeersFollowDevice, SetKey, Live
<1>6. SectionOwn' /\ Staged' /\ MonitorHolds'
  BY Zenon DEF ConfigInv, SetKey, SectionOwn, Staged, MonitorHolds
<1> QED BY <1>3, <1>4, <1>5, <1>6, Zenon DEF ConfigInv

\* replace_peers empties the three maps together.
LEMMA ClearStep ==
  ASSUME ConfigInv, UNCHANGED client, ClearPeers
  PROVE  ConfigInv'
<1>1. ConfigType'
  BY Zenon DEF ConfigInv, ConfigType, ClearPeers
<1>2. Live' = {}
  BY Zenon DEF Live, ClearPeers
<1>3. IndexesOwn' /\ RoutesOwn' /\ PeersFollowDevice'
  BY <1>2, ConfigAssumption, Zenon DEF ClearPeers, IndexesOwn, RoutesOwn, PeersFollowDevice
<1>4. SectionOwn' /\ Staged' /\ MonitorHolds'
  BY Zenon DEF ConfigInv, ClearPeers, SectionOwn, Staged, MonitorHolds
<1> QED BY <1>1, <1>3, <1>4, Zenon DEF ConfigInv

\* AwgParams::apply puts all that was sent in force, at the device and at its
\* peers, together with the MTU as last read.
LEMMA ApplyKeeps ==
  ASSUME ConfigInv, Apply,
         UNCHANGED <<byIdx, byIp, keyPair, limiter, nextIndex, mtu, refresh, claim, client>>
  PROVE  /\ peers' \in [Keys -> Peer \cup {None}] /\ settings' \in Settings
         /\ IndexesOwn' /\ RoutesOwn' /\ MonitorHolds' /\ PeersFollowDevice'
         /\ \A p \in Params : txn.awg[p] # None => settings'.params[p] = txn.awg[p]
<1>0. ConfigType /\ txn.awg \in [Params -> Values \cup {None}]
  BY Zenon DEF ConfigInv, ConfigType, Transaction
<1>1. /\ Merged \in Settings /\ Merged.mtu = Saturated(mtu)
      /\ \A p \in Params : txn.awg[p] # None => Merged.params[p] = txn.awg[p]
  BY <1>0, SaturatedType, Zenon DEF ConfigType, Settings, Merged
<1>2. /\ settings' \in Settings
      /\ \A p \in Params : txn.awg[p] # None => settings'.params[p] = txn.awg[p]
      /\ settings'.mtu \in {settings.mtu, Saturated(mtu)}
  BY <1>0, <1>1, Zenon DEF ConfigType, Apply, Unset
<1>3. \A k \in Keys : /\ peers'[k] = None <=> peers[k] = None
                      /\ peers[k] # None => /\ peers'[k] \in Peer
                                            /\ peers'[k].index = peers[k].index
                                            /\ peers'[k].attrs = peers[k].attrs
                                            /\ peers'[k].private = peers[k].private
                                            /\ peers'[k].limiter = peers[k].limiter
                                            /\ peers'[k].settings = settings'
  <2> SUFFICES ASSUME NEW k \in Keys
               PROVE  /\ peers'[k] = None <=> peers[k] = None
                      /\ peers[k] # None => /\ peers'[k] \in Peer
                                            /\ peers'[k].index = peers[k].index
                                            /\ peers'[k].attrs = peers[k].attrs
                                            /\ peers'[k].private = peers[k].private
                                            /\ peers'[k].limiter = peers[k].limiter
                                            /\ peers'[k].settings = settings'
    BY Zenon
  <2>1. peers[k] # None => peers[k] \in Peer /\ peers[k].settings = settings
    BY <1>0, Zenon DEF ConfigType, ConfigInv, PeersFollowDevice, Live
  <2>2. peers'[k] = IF peers[k] = None \/ settings' = settings THEN peers[k]
                    ELSE [peers[k] EXCEPT !.settings = settings']
    BY Zenon DEF Apply
  <2> QED BY <1>2, <2>1, <2>2, ConfigAssumption DEF Peer
<1>4. peers' \in [Keys -> Peer \cup {None}]
  <2>1. peers' = [k \in Keys |-> peers'[k]]
    BY Zenon DEF Apply
  <2> QED BY <1>3, <2>1, Zenon
<1>5. IndexesOwn' /\ RoutesOwn' /\ Live' = Live
  BY <1>0, <1>3, PeersRewritten, Zenon DEF ConfigInv
<1>6. PeersFollowDevice'
  BY <1>3, <1>5, Zenon DEF ConfigInv, PeersFollowDevice, Live
<1>7. MonitorHolds'
  BY <1>2, Zenon DEF ConfigInv, MonitorHolds, Saturated
<1> QED BY <1>2, <1>4, <1>5, <1>6, <1>7, Zenon

\* The end of the device's part, with a first peer section or without one.
LEMMA DeviceStep ==
  ASSUME ConfigInv, UNCHANGED client, DeviceDone \/ \E k \in Keys : FirstPeer(k)
  PROVE  ConfigInv'
<1>0. ConfigType /\ txn \in Transaction /\ Apply
      /\ UNCHANGED <<byIdx, byIp, keyPair, limiter, nextIndex, mtu, refresh, claim, client>>
  BY Zenon DEF ConfigInv, ConfigType, DeviceDone, FirstPeer
<1>1. /\ peers' \in [Keys -> Peer \cup {None}] /\ settings' \in Settings
      /\ IndexesOwn' /\ RoutesOwn' /\ MonitorHolds' /\ PeersFollowDevice'
      /\ \A p \in Params : txn.awg[p] # None => settings'.params[p] = txn.awg[p]
  BY <1>0, ApplyKeeps, Zenon
<1>2. txn' \in Transaction /\ txn'.awg = txn.awg /\ SectionOwn'
  <2>1. CASE DeviceDone
    BY <1>0, <2>1, Zenon DEF DeviceDone, Transaction, SectionOwn
  <2>2. ASSUME NEW k \in Keys, FirstPeer(k)
        PROVE  txn' \in Transaction /\ txn'.awg = txn.awg /\ SectionOwn'
    <3>1. txn' = [txn EXCEPT !.at = "peer", !.key = k, !.sec = PeerSection]
      BY <2>2, Zenon DEF FirstPeer
    <3>2. txn' \in Transaction /\ txn'.awg = txn.awg /\ txn'.key = k /\ txn'.sec = PeerSection
      BY <1>0, <3>1, SectionType, Zenon DEF Transaction
    <3> QED BY <3>2, SectionType, Zenon DEF SectionOwn
  <2> QED BY <2>1, <2>2, Zenon
<1>3. ConfigType'
  BY <1>0, <1>1, <1>2, Zenon DEF ConfigType
<1>4. Staged'
  BY <1>1, <1>2, Zenon DEF Staged
<1> QED BY <1>1, <1>2, <1>3, <1>4, Zenon DEF ConfigInv

\* The monitor captures a reading, and writes the reading it captured.
LEMMA ReadMtuStep ==
  ASSUME ConfigInv, UNCHANGED client, NEW m \in client.mtus, ReadMtu(m)
  PROVE  ConfigInv'
<1>1. m \in Nat \ {0} /\ Saturated(m) \in Nat \ {0}
  BY LinesSent, SaturatedType, Zenon DEF ConfigInv
<1>2. ConfigType'
  BY <1>1, Zenon DEF ConfigInv, ConfigType, ReadMtu
<1>3. IndexesOwn' /\ RoutesOwn' /\ Live' = Live
  BY PeersRewritten, Zenon DEF ConfigInv, ReadMtu
<1>4. PeersFollowDevice' /\ SectionOwn' /\ Staged'
  BY <1>3, Zenon DEF ConfigInv, PeersFollowDevice, SectionOwn, Staged, ReadMtu
<1>5. MonitorHolds'
  BY <1>1, Zenon DEF ReadMtu, MonitorHolds, Saturated
<1> QED BY <1>2, <1>3, <1>4, <1>5, Zenon DEF ConfigInv

\* refresh_mtu writes the captured reading to the device and its peers.
LEMMA PushMtuStep ==
  ASSUME ConfigInv, UNCHANGED client, PushMtu
  PROVE  ConfigInv'
<1>0. ConfigType /\ refresh \in Nat /\ refresh = Saturated(mtu) /\ txn.at = "idle"
  BY Zenon DEF ConfigInv, ConfigType, MonitorHolds, PushMtu
<1>1. settings' \in Settings /\ settings'.mtu = refresh /\ settings' = [settings EXCEPT !.mtu = refresh]
  BY <1>0, Zenon DEF ConfigType, Settings, PushMtu
<1>2. \A k \in Keys : /\ peers'[k] = None <=> peers[k] = None
                      /\ peers[k] # None => /\ peers'[k] \in Peer
                                            /\ peers'[k].index = peers[k].index
                                            /\ peers'[k].attrs = peers[k].attrs
                                            /\ peers'[k].private = peers[k].private
                                            /\ peers'[k].limiter = peers[k].limiter
                                            /\ peers'[k].settings = settings'
  <2>1. ASSUME NEW k \in Keys, peers[k] # None
        PROVE  /\ peers'[k] \in Peer
               /\ peers'[k].index = peers[k].index
               /\ peers'[k].attrs = peers[k].attrs
               /\ peers'[k].private = peers[k].private
               /\ peers'[k].limiter = peers[k].limiter
               /\ peers'[k].settings = settings'
    <3>1. peers[k] \in Peer /\ peers[k].settings = settings
      BY <1>0, <2>1, Zenon DEF ConfigType, ConfigInv, PeersFollowDevice, Live
    <3>2. peers'[k] = [peers[k] EXCEPT !.settings.mtu = refresh]
      BY <2>1, Zenon DEF PushMtu
    <3>3. peers'[k] = [peers[k] EXCEPT !.settings = settings']
      BY <1>1, <3>1, <3>2, Zenon
    <3> QED BY <1>1, <3>1, <3>3, Zenon DEF Peer
  <2>2. \A k \in Keys : peers'[k] = None <=> peers[k] = None
    BY <2>1, ConfigAssumption, Zenon DEF PushMtu
  <2> QED BY <2>1, <2>2, Zenon
<1>3. ConfigType'
  <2>1. peers' \in [Keys -> Peer \cup {None}]
    <3>1. peers' = [k \in Keys |-> peers'[k]]
      BY Zenon DEF PushMtu
    <3> QED BY <1>2, <3>1, Zenon
  <2> QED BY <1>0, <1>1, <2>1, Zenon DEF ConfigType, PushMtu
<1>4. IndexesOwn' /\ RoutesOwn' /\ Live' = Live
  BY <1>0, <1>2, PeersRewritten, Zenon DEF ConfigInv, PushMtu
<1>5. PeersFollowDevice'
  BY <1>2, <1>4, Zenon DEF ConfigInv, PeersFollowDevice, PushMtu, Live
<1>6. SectionOwn' /\ Staged' /\ MonitorHolds'
  BY <1>0, <1>1, Zenon DEF PushMtu, SectionOwn, Staged, MonitorHolds, Saturated
<1> QED BY <1>3, <1>4, <1>5, <1>6, Zenon DEF ConfigInv

\* A peer refused for want of a key spends its index and nothing else.
LEMMA NoKeyPairStep ==
  ASSUME ConfigInv, UNCHANGED client, NoKeyPair
  PROVE  ConfigInv'
<1>1. ConfigType' /\ txn'.at = "failed"
  BY DEF ConfigInv, ConfigType, NoKeyPair, Transaction
<1>2. Live' = Live /\ UNCHANGED <<peers, byIdx, byIp, claim>>
  BY Zenon DEF Live, NoKeyPair
<1>3. IndexesOwn'
  <2>1. nextIndex' = nextIndex + 1 /\ nextIndex \in Nat
    BY Zenon DEF ConfigInv, ConfigType, NoKeyPair
  <2>2. \A k \in Live : peers[k].index \in 1..(nextIndex + 1)
    BY <2>1 DEF ConfigInv, IndexesOwn
  <2> QED BY <1>2, <2>1, <2>2, Zenon DEF ConfigInv, IndexesOwn
<1>4. RoutesOwn' /\ PeersFollowDevice' /\ SectionOwn' /\ Staged' /\ MonitorHolds'
  BY <1>1, <1>2 DEF ConfigInv, RoutesOwn, PeersFollowDevice, SectionOwn, Staged, MonitorHolds, NoKeyPair
<1> QED BY <1>1, <1>3, <1>4, Zenon DEF ConfigInv

\* What a committed section leaves, whatever it did.
Committed ==
  /\ peers' \in [Keys -> Peer \cup {None}] /\ byIp' \in [Networks -> Nat]
  /\ nextIndex' \in Nat /\ claim' \in [Networks -> Keys \cup {None}]
  /\ IndexesOwn' /\ RoutesOwn' /\ PeersFollowDevice'

\* What a section's claims come to.
LEMMA ClaimsType ==
  ASSUME ConfigInv, NEW k \in Keys, NEW sec \in Section
  PROVE  Claims(k, sec) \in [Networks -> Keys \cup {None}]
BY Zenon DEF ConfigInv, ConfigType, Claims

\* remove=true takes the peer out of the three maps.
LEMMA RemoveKeeps ==
  ASSUME ConfigInv, NEW k \in Keys, NEW sec \in Section, sec.remove, peers[k] # None,
         RemovePeer(k), claim' = Claims(k, sec), UNCHANGED <<keyPair, limiter, settings>>
  PROVE  Committed
<1>0. ConfigType /\ IndexesOwn /\ RoutesOwn /\ PeersFollowDevice /\ k \in Live
  BY Zenon DEF ConfigInv, Live
<1> DEFINE i == peers[k].index
<1>1. i \in Nat \ {0} /\ i \in byIdx
  BY <1>0 DEF IndexesOwn
<1>2. peers' \in [Keys -> Peer \cup {None}] /\ Live' = Live \ {k}
  BY <1>0, Zenon DEF ConfigType, RemovePeer, Live
<1>3. \A j \in Live' : peers'[j] = peers[j] /\ j \in Live /\ j # k
  BY <1>0, <1>2 DEF ConfigType, RemovePeer
<1>4. byIp' \in [Networks -> Nat] /\ nextIndex' = nextIndex
      /\ \A net \in Networks : byIp'[net] = IF byIp[net] = i THEN 0 ELSE byIp[net]
  BY <1>0, Zenon DEF ConfigType, RemovePeer, Removed
<1>5. \A net \in Networks : claim'[net] = IF claim[net] = k THEN None ELSE claim[net]
  BY Zenon DEF Claims
<1>6. IndexesOwn'
  <2>1. byIdx' = byIdx \ {i}
    BY Zenon DEF RemovePeer
  <2>2. byIdx' = {peers[j].index : j \in Live \ {k}}
    BY <1>0, <2>1, Zenon DEF IndexesOwn
  <2>3. byIdx' = {peers'[j].index : j \in Live'}
    BY <1>2, <1>3, <2>2
  <2> QED BY <1>0, <1>3, <1>4, <2>3 DEF IndexesOwn
<1>7. RoutesOwn'
  <2> SUFFICES ASSUME NEW net \in Networks
               PROVE  /\ byIp'[net] \in byIdx' \cup {0}
                      /\ \A j \in Keys : claim'[net] = j <=> (j \in Live' /\ byIp'[net] = peers'[j].index)
    BY Zenon DEF RoutesOwn
  <2>1. byIp'[net] \in byIdx' \cup {0}
    BY <1>0, <1>4, Zenon DEF RoutesOwn, RemovePeer
  <2>2. ASSUME NEW j \in Keys
        PROVE  claim'[net] = j <=> (j \in Live' /\ byIp'[net] = peers'[j].index)
    <3>1. claim[net] = j <=> (j \in Live /\ byIp[net] = peers[j].index)
      BY <1>0, Zenon DEF RoutesOwn
    <3>2. claim[net] = k <=> byIp[net] = i
      BY <1>0, Zenon DEF RoutesOwn
    <3>3. j \in Live => peers[j].index # 0 /\ (peers[j].index = i => j = k)
      BY <1>0 DEF IndexesOwn
    <3> QED BY <1>2, <1>3, <1>4, <1>5, <3>1, <3>2, <3>3, ConfigAssumption, Zenon
  <2> QED BY <2>1, <2>2, Zenon
<1>8. PeersFollowDevice'
  BY <1>0, <1>3 DEF PeersFollowDevice
<1>9. nextIndex' \in Nat /\ claim' \in [Networks -> Keys \cup {None}]
  BY <1>0, <1>4, ClaimsType, Zenon DEF ConfigType
<1> QED BY <1>2, <1>4, <1>6, <1>7, <1>8, <1>9, Zenon DEF Committed

\* A section for a known peer moves the networks it names to that peer, and
\* with replace_allowed_ips drops the others of that peer, and only those.
LEMMA MergeKeeps ==
  ASSUME ConfigInv, NEW k \in Keys, NEW sec \in Section, ~sec.remove, peers[k] # None,
         \A a \in Attrs : sec.attrs[a] \in {None, k},
         MergePeer(k, sec), claim' = Claims(k, sec), UNCHANGED <<keyPair, limiter, settings>>
  PROVE  Committed
<1>0. ConfigType /\ IndexesOwn /\ RoutesOwn /\ PeersFollowDevice /\ k \in Live /\ peers[k] \in Peer
  BY Zenon DEF ConfigInv, Live, ConfigType
<1> DEFINE i == peers[k].index
           own == {net \in Networks : byIp[net] = i}
           prefixes == (IF sec.replace THEN {} ELSE own) \cup sec.ips
<1>1. i \in Nat \ {0} /\ i \in byIdx /\ sec.ips \subseteq Networks
  BY <1>0 DEF IndexesOwn, Section
<1>2. /\ Overlaid(peers[k].attrs, sec.attrs) \in [Attrs -> Keys \cup {None}]
      /\ \A a \in Attrs : Overlaid(peers[k].attrs, sec.attrs)[a] \in {None, k}
  BY <1>0, Zenon DEF Overlaid, Peer, Section, PeersFollowDevice
<1>3. /\ peers'[k] = [peers[k] EXCEPT !.attrs = Overlaid(peers[k].attrs, sec.attrs)]
      /\ \A j \in Keys \ {k} : peers'[j] = peers[j]
      /\ DOMAIN peers' = Keys /\ peers' = [j \in Keys |-> peers'[j]]
  BY <1>0, Zenon DEF MergePeer, ConfigType
<1>4. /\ peers'[k] \in Peer /\ peers'[k].index = i /\ peers'[k].private = peers[k].private
      /\ peers'[k].limiter = peers[k].limiter /\ peers'[k].settings = peers[k].settings
      /\ peers'[k].attrs = Overlaid(peers[k].attrs, sec.attrs)
  BY <1>0, <1>2, <1>3, Zenon DEF Peer
<1>5. peers' \in [Keys -> Peer \cup {None}]
  <2>1. \A j \in Keys : peers'[j] \in Peer \cup {None}
    BY <1>0, <1>3, <1>4, Zenon DEF ConfigType
  <2> QED BY <1>3, <2>1, Zenon
<1>6. Live' = Live /\ \A j \in Live : peers'[j].index = peers[j].index
  BY <1>0, <1>3, <1>4, ConfigAssumption, Zenon DEF Live
<1>7. byIp' \in [Networks -> Nat] /\ UNCHANGED <<byIdx, nextIndex>>
  BY <1>0, <1>1, Zenon DEF ConfigType, MergePeer, Inserted, Removed
<1>8. \A net \in Networks :
        byIp'[net] = IF net \in sec.ips THEN i
                     ELSE IF byIp[net] = i THEN IF sec.replace THEN 0 ELSE i
                     ELSE byIp[net]
  <2> SUFFICES ASSUME NEW net \in Networks
               PROVE  byIp'[net] = IF net \in sec.ips THEN i
                                   ELSE IF byIp[net] = i THEN IF sec.replace THEN 0 ELSE i
                                   ELSE byIp[net]
    BY Zenon
  <2>1. byIp' = IF sec.replace \/ sec.ips # {} THEN Inserted(Removed(byIp, i), prefixes, i) ELSE byIp
    BY Zenon DEF MergePeer
  <2>2. Inserted(Removed(byIp, i), prefixes, i)[net] =
          IF net \in prefixes THEN i ELSE IF byIp[net] = i THEN 0 ELSE byIp[net]
    BY Zenon DEF Inserted, Removed
  <2> QED BY <2>1, <2>2, Zenon
<1>9. \A net \in Networks :
        claim'[net] = IF net \in sec.ips THEN k
                      ELSE IF claim[net] = k /\ sec.replace THEN None ELSE claim[net]
  BY Zenon DEF Claims
<1>10. IndexesOwn'
  BY <1>0, <1>6, <1>7 DEF IndexesOwn
<1>11. RoutesOwn'
  <2> SUFFICES ASSUME NEW net \in Networks
               PROVE  /\ byIp'[net] \in byIdx' \cup {0}
                      /\ \A j \in Keys : claim'[net] = j <=> (j \in Live' /\ byIp'[net] = peers'[j].index)
    BY Zenon DEF RoutesOwn
  <2>1. byIp'[net] \in byIdx' \cup {0}
    BY <1>0, <1>1, <1>7, <1>8, Zenon DEF RoutesOwn
  <2>2. ASSUME NEW j \in Keys
        PROVE  claim'[net] = j <=> (j \in Live' /\ byIp'[net] = peers'[j].index)
    <3>1. claim[net] = j <=> (j \in Live /\ byIp[net] = peers[j].index)
      BY <1>0, Zenon DEF RoutesOwn
    <3>2. claim[net] = k <=> byIp[net] = i
      BY <1>0, Zenon DEF RoutesOwn
    <3>3. j \in Live => peers[j].index # 0 /\ (peers[j].index = i => j = k)
      BY <1>0 DEF IndexesOwn
    <3> HIDE DEF i
    <3> QED BY <1>0, <1>6, <1>8, <1>9, <3>1, <3>2, <3>3, ConfigAssumption, Zenon DEF i
  <2> QED BY <2>1, <2>2, Zenon
<1>12. PeersFollowDevice'
  <2> SUFFICES ASSUME NEW j \in Live
               PROVE  /\ peers'[j].private = keyPair /\ peers'[j].limiter = limiter
                      /\ peers'[j].settings = settings
                      /\ \A a \in Attrs : peers'[j].attrs[a] \in {None, j}
    BY <1>6, Zenon DEF PeersFollowDevice
  <2>1. CASE j = k
    BY <1>0, <1>2, <1>4, <2>1, Zenon DEF PeersFollowDevice
  <2>2. CASE j # k
    BY <1>0, <1>3, <2>2, Zenon DEF PeersFollowDevice, Live
  <2> QED BY <2>1, <2>2, Zenon
<1>13. nextIndex' \in Nat /\ claim' \in [Networks -> Keys \cup {None}]
  BY <1>0, <1>7, ClaimsType, Zenon DEF ConfigType
<1> QED BY <1>5, <1>7, <1>10, <1>11, <1>12, <1>13, Zenon DEF Committed

\* A new peer takes the device's key, limiter and settings as they are, and an
\* index nothing routes to.
LEMMA AddKeeps ==
  ASSUME ConfigInv, NEW k \in Keys, NEW sec \in Section, ~sec.remove, peers[k] = None,
         keyPair # None, \A a \in Attrs : sec.attrs[a] \in {None, k},
         AddPeer(k, sec), claim' = Claims(k, sec), UNCHANGED <<keyPair, limiter, settings>>
  PROVE  Committed
<1>0. ConfigType /\ IndexesOwn /\ RoutesOwn /\ PeersFollowDevice /\ k \notin Live
  BY Zenon DEF ConfigInv, Live
<1> DEFINE n == nextIndex + 1
           new == [index |-> n, attrs |-> sec.attrs, private |-> keyPair,
                   limiter |-> limiter, settings |-> settings]
<1>1. n \in Nat /\ nextIndex' = n /\ nextIndex \in Nat /\ sec.ips \subseteq Networks
      /\ sec.attrs \in [Attrs -> Keys \cup {None}]
  BY <1>0 DEF ConfigType, AddPeer, Section
<1>2. new \in Peer /\ new # None
  BY <1>0, <1>1, ConfigAssumption DEF ConfigType, Peer
<1>3. peers'[k] = new /\ \A j \in Keys \ {k} : peers'[j] = peers[j]
  BY <1>0, Zenon DEF ConfigType, AddPeer
<1>4. peers' \in [Keys -> Peer \cup {None}]
  BY <1>0, <1>2, Zenon DEF ConfigType, AddPeer
<1>5. Live' = Live \cup {k} /\ \A j \in Live : j # k /\ peers'[j] = peers[j]
  BY <1>0, <1>2, <1>3, Zenon DEF Live
<1>6. \A j \in Live : peers[j].index \in 1..nextIndex
  BY <1>0, Zenon DEF IndexesOwn
<1>7. byIp' \in [Networks -> Nat]
      /\ \A net \in Networks : byIp'[net] = IF net \in sec.ips THEN n ELSE byIp[net]
  BY <1>0, <1>1, Zenon DEF ConfigType, AddPeer, Inserted
<1>8. \A net \in Networks : /\ claim[net] # k
                            /\ claim'[net] = IF net \in sec.ips THEN k ELSE claim[net]
  BY <1>0, Zenon DEF Claims, RoutesOwn
<1>9. IndexesOwn'
  <2>1. \A j \in Live' : peers'[j].index \in 1..n
    BY <1>1, <1>3, <1>5, <1>6
  <2>2. \A j, l \in Live' : peers'[j].index = peers'[l].index => j = l
    <3>1. \A j, l \in Live : peers[j].index = peers[l].index => j = l
      BY <1>0, Zenon DEF IndexesOwn
    <3>2. \A j \in Live : peers[j].index # n
      BY <1>1, <1>6
    <3> QED BY <1>3, <1>5, <3>1, <3>2
  <2>3. byIdx' = {peers'[j].index : j \in Live'}
    <3>1. byIdx' = {peers[j].index : j \in Live} \cup {n}
      BY <1>0, Zenon DEF AddPeer, IndexesOwn
    <3>2. peers'[k].index = n
      BY <1>3
    <3> HIDE DEF n
    <3> QED BY <1>5, <3>1, <3>2
  <2> QED BY <1>1, <2>1, <2>2, <2>3, Zenon DEF IndexesOwn
<1>10. RoutesOwn'
  <2> SUFFICES ASSUME NEW net \in Networks
               PROVE  /\ byIp'[net] \in byIdx' \cup {0}
                      /\ \A j \in Keys : claim'[net] = j <=> (j \in Live' /\ byIp'[net] = peers'[j].index)
    BY Zenon DEF RoutesOwn
  <2>1. byIp[net] \in byIdx \cup {0}
    BY <1>0, Zenon DEF RoutesOwn
  <2>2. byIp[net] # n
    BY <1>0, <1>1, <1>6, <2>1 DEF IndexesOwn
  <2>3. byIp'[net] \in byIdx' \cup {0}
    BY <1>7, <2>1, Zenon DEF AddPeer
  <2>4. ASSUME NEW j \in Keys
        PROVE  claim'[net] = j <=> (j \in Live' /\ byIp'[net] = peers'[j].index)
    <3>1. claim[net] = j <=> (j \in Live /\ byIp[net] = peers[j].index)
      BY <1>0, Zenon DEF RoutesOwn
    <3>2. j \in Live => peers[j].index # n
      BY <1>1, <1>6
    <3>3. peers'[k].index = n
      BY <1>3
    <3> HIDE DEF n
    <3> QED BY <1>5, <1>7, <1>8, <2>2, <3>1, <3>2, <3>3, Zenon
  <2> QED BY <2>3, <2>4, Zenon
<1>11. PeersFollowDevice'
  BY <1>0, <1>3, <1>5 DEF PeersFollowDevice
<1>12. nextIndex' \in Nat /\ claim' \in [Networks -> Keys \cup {None}]
  BY <1>1, ClaimsType, Zenon
<1> QED BY <1>4, <1>7, <1>9, <1>10, <1>11, <1>12, Zenon DEF Committed

\* commit_peer, whatever its section says.
LEMMA CommitKeeps ==
  ASSUME ConfigInv, NEW k \in Keys, NEW sec \in Section, CommitPeer(k, sec),
         \A a \in Attrs : sec.attrs[a] \in {None, k}, UNCHANGED <<keyPair, limiter, settings>>
  PROVE  Committed
<1>0. ConfigType
  BY Zenon DEF ConfigInv
<1>1. CASE peers[k] = None /\ (sec.update_only \/ sec.remove)
  <2>1. UNCHANGED <<peers, byIdx, byIp, nextIndex, claim>>
    BY <1>1, Zenon DEF CommitPeer
  <2>2. IndexesOwn' /\ RoutesOwn' /\ Live' = Live
    BY <1>0, <2>1, PeersRewritten, Zenon DEF ConfigInv
  <2> QED BY <1>0, <2>1, <2>2, Zenon DEF ConfigInv, ConfigType, PeersFollowDevice, Committed
<1>2. CASE peers[k] # None /\ sec.remove
  BY <1>2, RemoveKeeps, Zenon DEF CommitPeer
<1>3. CASE peers[k] # None /\ ~sec.remove
  BY <1>3, MergeKeeps, Zenon DEF CommitPeer
<1>4. CASE peers[k] = None /\ ~sec.remove /\ ~sec.update_only
  BY <1>4, AddKeeps, Zenon DEF CommitPeer
<1>5. sec.remove \in BOOLEAN /\ sec.update_only \in BOOLEAN
  BY Zenon DEF Section
<1> QED BY <1>1, <1>2, <1>3, <1>4, <1>5, Zenon

\* A peer section is committed, and the next one begins or the transaction ends.
LEMMA CommitStep ==
  ASSUME ConfigInv, UNCHANGED client, PeersDone \/ \E k \in Keys : NextPeer(k)
  PROVE  ConfigInv'
<1>0. /\ ConfigType /\ txn \in Transaction /\ txn.at = "peer" /\ txn.key \in Keys
      /\ txn.sec \in Section /\ \A a \in Attrs : txn.sec.attrs[a] \in {None, txn.key}
      /\ \A p \in Params : txn.awg[p] # None => settings.params[p] = txn.awg[p]
  BY Zenon DEF ConfigInv, ConfigType, SectionOwn, Staged, PeersDone, NextPeer, Transaction
<1>1. UNCHANGED <<keyPair, limiter, settings, mtu, refresh, client>> /\ CommitPeer(txn.key, txn.sec)
  BY Zenon DEF PeersDone, NextPeer
<1>2. Committed
  BY <1>0, <1>1, CommitKeeps, Zenon
<1>3. txn' \in Transaction /\ txn'.awg = txn.awg /\ SectionOwn'
  <2>1. CASE PeersDone
    BY <1>0, <2>1, Zenon DEF PeersDone, Transaction, SectionOwn
  <2>2. ASSUME NEW k \in Keys, NextPeer(k)
        PROVE  txn' \in Transaction /\ txn'.awg = txn.awg /\ SectionOwn'
    <3>1. txn' = [txn EXCEPT !.key = k, !.sec = PeerSection]
      BY <2>2, Zenon DEF NextPeer
    <3>2. txn' \in Transaction /\ txn'.awg = txn.awg /\ txn'.key = k /\ txn'.sec = PeerSection
      BY <1>0, <3>1, SectionType, Zenon DEF Transaction
    <3> QED BY <3>2, SectionType, Zenon DEF SectionOwn
  <2> QED BY <2>1, <2>2, Zenon
<1>4. ConfigType'
  BY <1>0, <1>1, <1>2, <1>3, Zenon DEF ConfigType, Committed
<1>5. Staged' /\ MonitorHolds'
  BY <1>0, <1>1, <1>3, Zenon DEF ConfigInv, Staged, MonitorHolds
<1> QED BY <1>2, <1>3, <1>4, <1>5, Zenon DEF ConfigInv, Committed

\* Every step keeps the invariant.
LEMMA ConfigStep == ConfigInv /\ [Next]_vars => ConfigInv'
<1> SUFFICES ASSUME ConfigInv, [Next]_vars PROVE ConfigInv'
  BY Zenon
<1>1. CASE UNCHANGED vars
  <2>1. txn \in Transaction /\ SectionOwn' /\ Staged'
    BY <1>1, Zenon DEF vars, ConfigInv, ConfigType, SectionOwn, Staged
  <2> QED BY <1>1, <2>1, QuietKeeps, Zenon DEF vars
<1>2. CASE Next
  BY <1>2, QuietStep, SectionStep, SetKeyStep, ClearStep, DeviceStep, ReadMtuStep, PushMtuStep,
     NoKeyPairStep, CommitStep, Zenon DEF Next
<1> QED BY <1>1, <1>2, Zenon

\* The invariant holds in every state of every behaviour.
LEMMA ConfigInvariant == Spec => []ConfigInv
BY ConfigInit, ConfigStep, PTL DEF Spec

-------------------------------------------------------------------------------
\* At every line of every transaction each peer has the device's private key,
\* limiter and AmneziaWG settings, and only values its own sections sent
\* (set_key, set_obfuscation, new_peer).
THEOREM DeviceFollowed == Spec => []PeersFollowDevice
<1>1. ConfigInv => PeersFollowDevice
  BY Zenon DEF ConfigInv
<1> QED BY <1>1, ConfigInvariant, PTL

\* A transaction that reports success has put what it sent in force
\* (AwgParams::apply).
THEOREM SuccessApplied == Spec => []SuccessMeansApplied
<1>1. ConfigInv => SuccessMeansApplied
  BY Zenon DEF ConfigInv, Staged, SuccessMeansApplied
<1> QED BY <1>1, ConfigInvariant, PTL

\* The clamp is the last reading of the interface's MTU, or the monitor holds
\* that reading (refresh_mtu).
THEOREM ClampCurrent == Spec => []ClampFollowsMtu
<1>1. ConfigInv => ClampFollowsMtu
  BY Zenon DEF ConfigInv, ConfigType, MonitorHolds, ClampFollowsMtu, Saturated
<1> QED BY <1>1, ConfigInvariant, PTL

\* Of the networks that contain an address one is the longest.
LEMMA LongestExists ==
  ASSUME NEW found \in SUBSET Networks, found # {}
  PROVE  \E net \in found : \A other \in found : other[2] <= net[2]
<1>1. \A net \in Networks : net[2] \in 0..AddrBits
  BY ConfigAssumption DEF Networks, NewTruncate
<1> DEFINE short == {AddrBits - net[2] : net \in found}
<1>2. short \subseteq Nat /\ short # {}
  BY <1>1, ConfigAssumption
<1>3. \E x \in short : \A y \in short : ~(<<y, x>> \in OpToRel(<, Nat))
  <2> HIDE DEF short
  <2> QED BY <1>2, WFMin, NatLessThanWellFounded, Zenon
<1>4. PICK x \in short : \A y \in short : ~(y < x)
  BY <1>2, <1>3, Zenon DEF OpToRel
<1>5. PICK net \in found : x = AddrBits - net[2]
  BY Zenon
<1>6. ASSUME NEW other \in found
      PROVE  other[2] <= net[2]
  <2>1. ~(AddrBits - other[2] < AddrBits - net[2])
    BY <1>4, <1>5, Zenon
  <2>2. other[2] \in 0..AddrBits /\ net[2] \in 0..AddrBits
    BY <1>1, Zenon
  <2> QED BY <2>1, <2>2, ConfigAssumption
<1> QED BY <1>6, Zenon

\* A network routes to the peer it was last given to, and an address to a peer
\* that is there, or nowhere (AllowedIps::insert, remove and find, as
\* update_peer and remove_peer use them).
THEOREM RoutesFollowClaims == Spec => []RoutesAsClaimed
<1>1. ASSUME ConfigInv
      PROVE  RoutesAsClaimed
  <2>0. ConfigType /\ IndexesOwn /\ RoutesOwn
    BY <1>1, Zenon DEF ConfigInv
  <2>1. byIdx = {peers[k].index : k \in Live}
        /\ \A j, k \in Live : peers[j].index = peers[k].index => j = k
    BY <2>0, Zenon DEF IndexesOwn
  <2>2. ASSUME NEW a \in 0..(2^AddrBits - 1)
        PROVE  Find(a) \in byIdx \cup {0}
    <3> DEFINE found == {net \in Networks : byIp[net] # 0 /\ Contains(net, a)}
    <3>1. CASE found = {}
      BY <3>1, Zenon DEF Find
    <3>2. CASE found # {}
      <4> DEFINE longest == CHOOSE net \in found : \A other \in found : other[2] <= net[2]
      <4>1. longest \in found
        <5>1. found \in SUBSET Networks
          BY Zenon
        <5> HIDE DEF found
        <5> QED BY <3>2, <5>1, LongestExists, Zenon
      <4>2. byIp[longest] \in byIdx \cup {0}
        BY <2>0, <4>1, Zenon DEF RoutesOwn
      <4> QED BY <3>2, <4>2, Zenon DEF Find
    <3> QED BY <3>1, <3>2, Zenon
  <2>3. ASSUME NEW net \in Networks
        PROVE  KeyOf(byIp[net]) = claim[net]
    <3>1. claim[net] \in Keys \cup {None}
      BY <2>0, Zenon DEF ConfigType
    <3>2. \A k \in Keys : claim[net] = k <=> (k \in Live /\ byIp[net] = peers[k].index)
      BY <2>0, Zenon DEF RoutesOwn
    <3>3. Live \subseteq Keys
      BY Zenon DEF Live
    <3>4. CASE claim[net] \in Keys
      <4>1. claim[net] \in Live /\ peers[claim[net]].index = byIp[net]
        BY <3>2, <3>4, Zenon
      <4>2. \A k \in Live : peers[k].index = byIp[net] => k = claim[net]
        BY <3>2, <3>3, Zenon
      <4> QED BY <4>1, <4>2, Zenon DEF KeyOf
    <3>5. CASE claim[net] = None
      BY <3>2, <3>3, <3>5, ConfigAssumption, Zenon DEF KeyOf
    <3> QED BY <3>1, <3>4, <3>5, Zenon
  <2> QED BY <2>1, <2>2, <2>3, Zenon DEF RoutesAsClaimed
<1> QED BY <1>1, ConfigInvariant, PTL

-------------------------------------------------------------------------------
(***************************************************************************)
(* The transport the commands arrive on.  Its count of connections and the *)
(* entry of a new one are two critical sections; Admission says why the    *)
(* limit holds between them: one worker dispatches the listener, and the   *)
(* room it found only grows until it enters its client.                    *)
(***************************************************************************)
Open == LiveConns

Admission ==
  /\ DOMAIN conn = Conns
  /\ \A c \in Conns : "phase" \in DOMAIN conn[c]
  /\ conn = [c \in Conns |-> conn[c]]
  /\ accepting \in [Workers -> SUBSET Conns]
  /\ Open \subseteq registry
  /\ \A v, w \in Workers : accepting[v] # {} /\ accepting[w] # {} => v = w
  /\ \A w \in Workers : \A c \in accepting[w] : accepting[w] = {c} /\ conn[c].phase = "new"
  /\ Cardinality(Open) <= MaxConnections
  /\ (\E w \in Workers : accepting[w] # {}) => Cardinality(Open) < MaxConnections

LEMMA OpenFinite ==
  /\ IsFiniteSet(Open) /\ Cardinality(Open) \in Nat
  /\ \A S \in SUBSET Open : Cardinality(S) <= Cardinality(Open) /\ Cardinality(S) \in Nat
<1>1. IsFiniteSet(Conns)
  BY FS_AddElement, TransportAssumption, Zenon DEF Conns
<1>2. Open \in SUBSET Conns
  BY Zenon DEF Open, LiveConns
<1>3. IsFiniteSet(Open)
  BY <1>1, <1>2, FS_Subset, Zenon
<1>4. QED
  BY <1>3, FS_Subset, FS_CardinalityType, Zenon

\* A dispatch leaves a connection a connection, in its phase or closing.
Kept(r, q) == "phase" \in DOMAIN q /\ q.phase \in {r.phase, "closing"}

LEMMA ScanKeeps ==
  ASSUME NEW r, "phase" \in DOMAIN r, NEW s, NEW rest, \A q \in rest : Kept(r, q),
         NEW q \in Scan(r, s, rest)
  PROVE  Kept(r, q)
<1>1. \A e, n : Kept(r, ProcessFrame(r, e, n))
  BY Zenon DEF Kept, ProcessFrame, Respond
<1>2. Kept(r, RefuseOversized(r))
  BY Zenon DEF Kept, RefuseOversized, Respond
<1>3. QED
  BY <1>1, <1>2, Zenon DEF Scan

LEMMA ReadKeeps ==
  ASSUME NEW r, "phase" \in DOMAIN r, NEW s, NEW q \in ReadOn(r, s)
  PROVE  Kept(r, q)
<1> DEFINE looked == [r EXCEPT !.scanned = Scanned(r)]
           room == {k \in 1..(r.avail - r.got) : k <= IoBudget /\ k <= MaxRequest - Buffered(r)}
           Read(k) == [looked EXCEPT !.got = @ + k,
                         !.readDl = IF @ = "off" THEN "on" ELSE @,
                         !.owner = IF r.readDl = "off" THEN r.got + k ELSE @]
           Waiting(p) == [p EXCEPT !.scanned = Scanned(p), !.mask = "read"]
           rest == IF r.got < r.avail
                   THEN UNION {Scan(Read(k), s, {Waiting(Read(k))}) : k \in room}
                   ELSE IF r.peer # "up" THEN {Close(looked)} ELSE {Waiting(looked)}
<1>1. "phase" \in DOMAIN looked /\ looked.phase = r.phase
  BY Zenon
<1>2. \A k : "phase" \in DOMAIN Read(k) /\ Read(k).phase = r.phase
  BY <1>1, Zenon
<1>3. \A p : "phase" \in DOMAIN p => Kept(p, Waiting(p))
  BY Zenon DEF Kept
<1>4. Kept(r, Close(looked)) /\ Kept(r, Waiting(looked))
  BY <1>1, <1>3, Zenon DEF Kept, Close
<1>5. ASSUME NEW k, NEW p \in Scan(Read(k), s, {Waiting(Read(k))})
      PROVE  Kept(r, p)
  <2>1. Kept(Read(k), Waiting(Read(k)))
    BY <1>2, <1>3, Zenon
  <2>2. PICK u : u = Read(k)
    BY Zenon
  <2>3. \A x \in {Waiting(Read(k))} : Kept(u, x)
    BY <2>1, <2>2, Zenon
  <2>4. Kept(u, p)
    <3> HIDE DEF Read, Waiting
    <3> QED BY <1>2, <2>2, <2>3, ScanKeeps, Zenon
  <2>5. QED
    BY <1>2, <2>2, <2>4, Zenon DEF Kept
<1>6. \A p \in rest : Kept(r, p)
  <2> HIDE DEF Read, Waiting, looked, room
  <2> QED BY <1>4, <1>5, Zenon
<1>7. q \in Scan(r, s, rest)
  BY Zenon DEF ReadOn
<1>8. QED
  <2> HIDE DEF rest
  <2> QED BY <1>6, <1>7, ScanKeeps, Zenon

LEMMA StepKeeps ==
  ASSUME NEW r, "phase" \in DOMAIN r, NEW s, NEW q \in StepResults(r, s)
  PROVE  Kept(r, q)
<1>1. \A p : "phase" \in DOMAIN p => Kept(p, Close(p))
  BY Zenon DEF Kept, Close
<1>2. ASSUME NEW p \in Writes(r)
      PROVE  "phase" \in DOMAIN p /\ p.phase = r.phase
  <2>1. PICK k, writable : p = Written(r, k, writable)
    BY DEF Writes
  <2>2. QED
    BY <2>1, Zenon DEF Written
<1>3. \A p : "phase" \in DOMAIN p =>
        "phase" \in DOMAIN Flushed(p) /\ Flushed(p).phase = p.phase
  BY Zenon DEF Flushed
<1>4. \A p : "phase" \in DOMAIN p => Kept(p, [p EXCEPT !.mask = "write"])
  BY Zenon DEF Kept
<1>5. CASE q = Close(r) \/ q \in ReadOn(r, s) \/ q = [r EXCEPT !.mask = "write"]
  BY <1>1, <1>4, <1>5, ReadKeeps, Zenon
<1>6. ASSUME NEW p \in Writes(r),
             \/ q = [p EXCEPT !.mask = "write"]
             \/ q = Close(Flushed(p))
             \/ q \in ReadOn(Flushed(p), s)
      PROVE  Kept(r, q)
  <2>1. PICK f : f = Flushed(p)
    BY Zenon
  <2>2. "phase" \in DOMAIN p /\ p.phase = r.phase /\ "phase" \in DOMAIN f /\ f.phase = r.phase
    BY <1>2, <1>3, <2>1, Zenon
  <2>3. Kept(p, q) \/ Kept(f, q)
    BY <1>1, <1>4, <1>6, <2>1, <2>2, ReadKeeps, Zenon
  <2>4. QED
    BY <2>2, <2>3, Zenon DEF Kept
<1>7. QED
  BY <1>5, <1>6, Zenon DEF StepResults

\* Every step but the listener's leaves what is not open alone, and opens nothing.
Quieter ==
  /\ DOMAIN conn' = Conns /\ conn' = [c \in Conns |-> conn'[c]]
  /\ \A c \in Conns : c \notin Open => conn'[c] = conn[c]
  /\ \A c \in Conns : "phase" \in DOMAIN conn'[c]
  /\ registry' = registry \/ registry' = registry \cap Open
  /\ accepting' = accepting

LEMMA OneQuieter ==
  ASSUME Admission, NEW c \in Open, NEW r, "phase" \in DOMAIN r,
         conn' = [conn EXCEPT ![c] = r], UNCHANGED <<registry, accepting>>
  PROVE  Quieter
<1>1. c \in Conns
  BY Zenon DEF Open, LiveConns
<1>2. QED
  BY <1>1, Zenon DEF Admission, Quieter

LEMMA QuieterKeeps ==
  ASSUME Admission, Quieter
  PROVE  Admission'
<1>1. Open' \subseteq Open
  BY Zenon DEF Quieter, Open, LiveConns, Conns
<1>2. Cardinality(Open') <= Cardinality(Open) /\ Cardinality(Open') \in Nat /\ Cardinality(Open) \in Nat
  BY <1>1, OpenFinite, Zenon
<1>3. Open' \subseteq registry'
  BY <1>1, Zenon DEF Quieter, Admission
<1>4. accepting' \in [Workers -> SUBSET Conns]
  BY Zenon DEF Quieter, Admission
<1>5. ASSUME NEW w \in Workers, NEW c \in accepting'[w]
      PROVE  accepting'[w] = {c} /\ conn'[c].phase = "new"
  <2>1. accepting[w] = {c} /\ conn[c].phase = "new" /\ c \in Conns
    BY <1>5, Zenon DEF Quieter, Admission
  <2>2. c \notin Open
    BY <2>1, Zenon DEF Open, LiveConns
  <2>3. QED
    BY <2>1, <2>2, Zenon DEF Quieter
<1>6. MaxConnections \in Nat
  BY TransportAssumption, Zenon
<1>7. /\ Cardinality(Open') <= MaxConnections
      /\ (\E w \in Workers : accepting'[w] # {}) => Cardinality(Open') < MaxConnections
  <2>1. /\ Cardinality(Open) <= MaxConnections
        /\ (\E w \in Workers : accepting'[w] # {}) => Cardinality(Open) < MaxConnections
    BY Zenon DEF Admission, Quieter
  <2>2. QED
    BY <1>2, <1>6, <2>1
<1>8. \A v, w \in Workers : accepting'[v] # {} /\ accepting'[w] # {} => v = w
  BY Zenon DEF Admission, Quieter
<1>9. QED
  BY <1>3, <1>4, <1>5, <1>7, <1>8, Zenon DEF Admission, Quieter, Conns

LEMMA QuietSteps ==
  ASSUME Admission, NEW c \in Conns,
         \/ Step(c) \/ Cancel(c) \/ Elapse(c)
         \/ ClientSends(c) \/ ClientReads(c) \/ ClientCloses(c)
  PROVE  Quieter
<1>1. "phase" \in DOMAIN conn[c] /\ DOMAIN conn = Conns
  BY Zenon DEF Admission
<1>2. UNCHANGED <<registry, accepting>>
  BY Zenon DEF Step, Cancel, Elapse, ClientSends,
         ClientReads, ClientCloses
<1>3. c \in Open
  BY Zenon DEF Step, Ready, Cancel, Elapse, ClientSends,
         ClientReads, ClientCloses, Open, LiveConns
<1>4. CASE Step(c)
  <2>1. PICK r \in StepResults(conn[c], stream[c]) : conn' = [conn EXCEPT ![c] = r]
    BY <1>4, Zenon DEF Step
  <2>2. Kept(conn[c], r)
    BY <1>1, StepKeeps, Zenon
  <2>3. QED
    BY <1>2, <1>3, <2>1, <2>2, OneQuieter, Zenon DEF Kept
<1>5. CASE Cancel(c)
  <2>1. conn' = [conn EXCEPT ![c] = [conn[c] EXCEPT !.phase = "gone"]]
    BY <1>5, Zenon DEF Cancel
  <2>2. "phase" \in DOMAIN [conn[c] EXCEPT !.phase = "gone"]
    BY <1>1, Zenon
  <2>3. QED
    BY <1>2, <1>3, <2>1, <2>2, OneQuieter, Zenon
<1>6. CASE Elapse(c)
  <2>1. PICK r : r = [conn[c] EXCEPT
                        !.readDl = IF @ = "on" THEN "past" ELSE @,
                        !.writeDl = IF @ = "on" /\ conn[c].readDl # "on" THEN "past" ELSE @]
    BY Zenon
  <2>2. conn' = [conn EXCEPT ![c] = r]
    BY <1>1, <1>6, <2>1, Zenon DEF Elapse
  <2>3. "phase" \in DOMAIN r
    BY <1>1, <2>1, Zenon
  <2>4. QED
    BY <1>2, <1>3, <2>2, <2>3, OneQuieter, Zenon
<1>7. CASE ClientSends(c)
  <2>1. conn' = [conn EXCEPT ![c] = [conn[c] EXCEPT !.avail = @ + 1]]
    BY <1>7, Zenon DEF ClientSends
  <2>2. "phase" \in DOMAIN [conn[c] EXCEPT !.avail = @ + 1]
    BY <1>1, Zenon
  <2>3. QED
    BY <1>2, <1>3, <2>1, <2>2, OneQuieter, Zenon
<1>8. CASE ClientReads(c)
  <2>1. conn' = [conn EXCEPT ![c] = [conn[c] EXCEPT !.writable = TRUE]]
    BY <1>8, Zenon DEF ClientReads
  <2>2. "phase" \in DOMAIN [conn[c] EXCEPT !.writable = TRUE]
    BY <1>1, Zenon
  <2>3. QED
    BY <1>2, <1>3, <2>1, <2>2, OneQuieter, Zenon
<1>9. CASE ClientCloses(c)
  <2>1. PICK how \in {"half", "closed"} : conn' = [conn EXCEPT ![c] = [conn[c] EXCEPT !.peer = how]]
    BY <1>9, Zenon DEF ClientCloses
  <2>2. "phase" \in DOMAIN [conn[c] EXCEPT !.peer = how]
    BY <1>1, Zenon
  <2>3. QED
    BY <1>2, <1>3, <2>1, <2>2, OneQuieter, Zenon
<1>10. QED
  BY <1>4, <1>5, <1>6, <1>7, <1>8, <1>9, Zenon

\* A client is admitted into room that is there, or dropped.
LEMMA AcceptStep ==
  ASSUME Admission, NEW w \in Workers, NEW c \in Conns,
         Accept(w, c)
  PROVE  Admission'
<1>1. /\ conn[c].phase = "new" /\ \A v \in Workers : accepting[v] = {}
      /\ registry' = registry \cap Open
  BY Zenon DEF Accept, ListenerArmed, Open
<1>2. registry' = Open
  BY <1>1, Zenon DEF Admission
<1>3. MaxConnections \in Nat /\ Cardinality(Open) \in Nat
  BY OpenFinite, TransportAssumption, Zenon
<1>4. CASE Cardinality(registry') >= MaxConnections
  <2>1. conn' = [conn EXCEPT ![c] = [conn[c] EXCEPT !.phase = "gone"]] /\ accepting' = accepting
    BY <1>4, Zenon DEF Accept
  <2>2. "phase" \in DOMAIN conn[c] /\ DOMAIN conn = Conns
    BY Zenon DEF Admission
  <2>3. conn'[c].phase = "gone" /\ "phase" \in DOMAIN conn'[c]
        /\ \A x \in Conns : x # c => conn'[x] = conn[x]
    BY <2>1, <2>2, Zenon
  <2>4. /\ DOMAIN conn' = Conns /\ conn' = [x \in Conns |-> conn'[x]]
        /\ \A x \in Conns : "phase" \in DOMAIN conn'[x]
    BY <2>1, <2>2, <2>3, Zenon DEF Admission
  <2>5. Open' = Open
    <3>1. Conns' = Conns
      BY Zenon DEF Conns
    <3>2. QED
      BY <1>1, <2>3, <3>1, Zenon DEF Open, LiveConns
  <2>6. Conns' = Conns
    BY Zenon DEF Conns
  <2>7. QED
    BY <1>1, <1>2, <2>1, <2>4, <2>5, <2>6, Zenon DEF Admission
<1>5. CASE ~(Cardinality(registry') >= MaxConnections)
  <2>1. accepting' = [accepting EXCEPT ![w] = {c}] /\ conn' = conn
    BY <1>5, Zenon DEF Accept
  <2>2. Open' = Open /\ Conns' = Conns
    BY <2>1, Zenon DEF Open, LiveConns, Conns
  <2>3. accepting' \in [Workers -> SUBSET Conns] /\ accepting'[w] = {c}
        /\ \A v \in Workers : v # w => accepting'[v] = {}
    BY <1>1, <2>1, Zenon DEF Admission
  <2>4. Cardinality(Open) < MaxConnections
    BY <1>2, <1>3, <1>5
  <2>5. \A u \in Workers : \A x \in accepting'[u] : accepting'[u] = {x} /\ conn'[x].phase = "new"
    BY <1>1, <2>1, <2>3, Zenon
  <2>6. \A u, v \in Workers : accepting'[u] # {} /\ accepting'[v] # {} => u = v
    BY <2>3, Zenon
  <2>7. QED
    BY <1>2, <1>3, <2>1, <2>2, <2>3, <2>4, <2>5, <2>6 DEF Admission
<1>6. QED
  BY <1>4, <1>5, Zenon

\* It takes the room it was given.
LEMMA RegisterStep ==
  ASSUME Admission, NEW w \in Workers, NEW c \in Conns,
         Register(w, c)
  PROVE  Admission'
<1>1. PICK phase \in {"open", "gone"} : conn' = [conn EXCEPT ![c] = [conn[c] EXCEPT !.phase = phase]]
  BY Zenon DEF Register
<1>2. c \in accepting[w] /\ registry' = registry \cup {c} /\ accepting' = [accepting EXCEPT ![w] = {}]
  BY Zenon DEF Register
<1>3. "phase" \in DOMAIN conn[c] /\ DOMAIN conn = Conns
  BY Zenon DEF Admission
<1>4. "phase" \in DOMAIN conn'[c] /\ \A x \in Conns : x # c => conn'[x] = conn[x]
  BY <1>1, <1>3, Zenon
<1>5. /\ DOMAIN conn' = Conns /\ conn' = [x \in Conns |-> conn'[x]]
      /\ \A x \in Conns : "phase" \in DOMAIN conn'[x]
  BY <1>1, <1>3, <1>4, Zenon DEF Admission
<1>6. Conns' = Conns
  BY Zenon DEF Conns
<1>7. Open' \subseteq Open \cup {c}
  BY <1>4, <1>6, Zenon DEF Open, LiveConns
<1>8. Cardinality(Open) < MaxConnections /\ MaxConnections \in Nat
  BY <1>2, TransportAssumption, Zenon DEF Admission
<1>9. Cardinality(Open') <= MaxConnections
  <2>1. IsFiniteSet(Open \cup {c}) /\ Cardinality(Open \cup {c}) <= Cardinality(Open) + 1
        /\ Cardinality(Open) \in Nat
    BY OpenFinite, FS_AddElement
  <2>2. Cardinality(Open') <= Cardinality(Open \cup {c}) /\ Cardinality(Open') \in Nat
        /\ Cardinality(Open \cup {c}) \in Nat
    BY <1>7, <2>1, FS_Subset, FS_CardinalityType, Zenon
  <2>3. QED
    BY <1>8, <2>1, <2>2
<1>10. accepting' \in [Workers -> SUBSET Conns] /\ \A v \in Workers : accepting'[v] = {}
  BY <1>2, Zenon DEF Admission
<1>11. Open' \subseteq registry'
  BY <1>2, <1>7, Zenon DEF Admission
<1>12. QED
  BY <1>5, <1>6, <1>9, <1>10, <1>11, Zenon DEF Admission

LEMMA AdmissionStep == Admission /\ [TransportNext]_transportVars => Admission'
<1> SUFFICES ASSUME Admission, [TransportNext]_transportVars PROVE Admission'
  BY Zenon
<1>1. CASE UNCHANGED transportVars
  <2>1. UNCHANGED <<conn, registry, accepting>>
    BY <1>1, Zenon DEF transportVars
  <2>2. QED
    BY <2>1, Zenon DEF Admission, Open, LiveConns, Conns
<1>2. ASSUME NEW busy \in SUBSET registry, Watchdog(busy) PROVE Admission'
  <2>1. Quieter
    <3> DEFINE late == {c \in registry \ busy :
                          c \in Open /\ ~conn[c].expired /\ TimedOut(conn[c])}
    <3>1. /\ conn' = [c \in Conns |->
                        IF c \in late THEN [conn[c] EXCEPT !.expired = TRUE] ELSE conn[c]]
          /\ registry' = registry \cap Open /\ accepting' = accepting
      BY <1>2, Zenon DEF Watchdog, Open
    <3>2. late \subseteq Open
      BY Zenon
    <3>3. \A c \in Conns : "phase" \in DOMAIN conn[c]
      BY Zenon DEF Admission
    <3> HIDE DEF late
    <3>4. \A c \in Conns : "phase" \in DOMAIN conn'[c]
      BY <3>1, <3>3, Zenon
    <3> QED
      BY <3>1, <3>2, <3>4, Zenon DEF Quieter
  <2>2. QED
    BY <2>1, QuieterKeeps, Zenon
<1>3. ASSUME NEW c \in Conns,
             \/ Step(c) \/ Cancel(c) \/ Elapse(c)
             \/ ClientSends(c) \/ ClientReads(c) \/ ClientCloses(c)
      PROVE  Admission'
  BY <1>3, QuietSteps, QuieterKeeps, Zenon
<1>4. ASSUME NEW c \in Conns, NEW w \in Workers,
             Accept(w, c) \/ Register(w, c)
      PROVE  Admission'
  BY <1>4, AcceptStep, RegisterStep, Zenon
<1>5. QED
  BY <1>1, <1>2, <1>3, <1>4, Zenon DEF TransportNext

LEMMA AdmissionInit == TransportInit => Admission
<1> SUFFICES ASSUME TransportInit PROVE Admission
  BY Zenon
<1>1. /\ accepting = [w \in Workers |-> {}] /\ registry = (IF inherited THEN {Fd} ELSE {})
      /\ conn = [c \in Conns |->
                   [New(c) EXCEPT !.phase = IF c # Fd THEN "new"
                                                      ELSE IF inherited THEN "open" ELSE "gone"]]
  BY Zenon DEF TransportInit
<1>2. \A c \in Conns :
        /\ "phase" \in DOMAIN conn[c]
        /\ conn[c].phase = IF c # Fd THEN "new" ELSE IF inherited THEN "open" ELSE "gone"
  BY <1>1, Zenon DEF New
<1>3. Open \subseteq registry
  BY <1>1, <1>2, Zenon DEF Open, LiveConns
<1>4. Cardinality(Open) <= MaxConnections
  <2>1. Open \subseteq {Fd}
    BY <1>1, <1>3, Zenon
  <2>2. Cardinality(Open) <= 1 /\ Cardinality(Open) \in Nat
    <3>1. IsFiniteSet({Fd}) /\ Cardinality({Fd}) = 1
      BY FS_Singleton, Zenon
    <3>2. QED
      BY <2>1, <3>1, OpenFinite, FS_Subset, Zenon
  <2>3. QED
    BY <2>2, TransportAssumption
<1>5. QED
  BY <1>1, <1>2, <1>3, <1>4, Zenon DEF Admission

\* However accepting, dying and the watchdog interleave, no more connections are
\* open than MAX_CONNECTIONS, although the count and the entry are two critical
\* sections: BoundedConnections (accept_connection, Connections).
THEOREM ConnectionsBounded == TransportSpec => []BoundedConnections
<1>1. Admission => BoundedConnections
  BY Zenon DEF Admission, Open, BoundedConnections
<1>2. TransportInit => Admission
  BY AdmissionInit, Zenon
<1>3. Admission /\ [TransportNext]_transportVars => Admission'
  BY AdmissionStep, Zenon
<1>4. QED
  BY <1>1, <1>2, <1>3, PTL DEF TransportSpec

-------------------------------------------------------------------------------
(***************************************************************************)
(* The frames on a connection.  What a scan has passed holds no blank      *)
(* line, so resuming there finds the same frame as a scan of all the       *)
(* input; and a reply is out exactly while one command more was taken than *)
(* answered.                                                               *)
(***************************************************************************)
Recorded(r) ==
  /\ "cut" \in DOMAIN r /\ "got" \in DOMAIN r /\ "scanned" \in DOMAIN r
  /\ "out" \in DOMAIN r /\ "taken" \in DOMAIN r /\ "told" \in DOMAIN r
  /\ "closeAfter" \in DOMAIN r /\ "avail" \in DOMAIN r

Answered(r) == r.taken = r.told + (IF r.out > 0 THEN 1 ELSE 0)

Counted(r) ==
  /\ r.cut \in Nat /\ r.got \in Nat /\ r.scanned \in Nat
  /\ r.out \in Nat /\ r.taken \in Nat /\ r.told \in Nat
  /\ r.cut + r.scanned <= r.got /\ r.avail \in Nat

Framed(r, s) ==
  /\ Recorded(r) /\ Counted(r) /\ Answered(r)
  /\ Terminators(s, r.cut, r.cut + r.scanned + 1) = {}

\* What FramesInOrder asks of a step from r to q on the stream s.
NextFrame(r, q, s) ==
  q.cut # r.cut =>
    LET ends == Terminators(s, r.cut, q.got)
    IN  /\ q.taken = q.told + (IF q.out > 0 THEN 1 ELSE 0)
        /\ IF ends # {} THEN q.cut = Least(ends)
           ELSE q.closeAfter /\ q.cut = r.cut + MaxRequest

Good(r, q, s) == Framed(q, s) /\ NextFrame(r, q, s)

\* The same input, output and counts.
Alike(r, q) ==
  /\ Recorded(q)
  /\ q.cut = r.cut /\ q.got = r.got /\ q.scanned = r.scanned
  /\ q.out = r.out /\ q.taken = r.taken /\ q.told = r.told
  /\ q.avail \in Nat

LEMMA AlikeGood ==
  ASSUME NEW r, NEW q, NEW s, Framed(r, s), Alike(r, q)
  PROVE  Good(r, q, s)
  BY Zenon DEF Good, Framed, Alike, NextFrame, Counted, Answered

LEMMA LeastFound ==
  ASSUME NEW S \in SUBSET Nat, S # {}
  PROVE  Least(S) \in S /\ \A n \in S : Least(S) <= n
<1>1. \E x \in S : \A y \in S : ~(<<y, x>> \in OpToRel(<, Nat))
  BY WFMin, NatLessThanWellFounded, Zenon
<1>2. PICK x \in S : \A y \in S : ~(y < x)
  BY <1>1, Zenon DEF OpToRel
<1>3. \A y \in S : x <= y
  BY <1>2
<1> QED BY <1>3, Zenon DEF Least

\* A scan that resumes finds what a scan of all the input would.
LEMMA FrameFound ==
  ASSUME NEW r, NEW s, Framed(r, s)
  PROVE  LET ends == Terminators(s, r.cut, r.got)
         IN  /\ FrameEnd(r, s) = (IF ends = {} THEN 0 ELSE Least(ends))
             /\ ends # {} => Least(ends) \in ends /\ Least(ends) # 0
             /\ ends \subseteq Nat /\ \A e \in ends : e <= r.got
<1> DEFINE ends == Terminators(s, r.cut, r.got)
<1>1. Counted(r) /\ Terminators(s, r.cut, r.cut + r.scanned + 1) = {}
  BY Zenon DEF Framed
<1>2. \A e \in ends : e \in Nat /\ e >= 2 /\ e <= r.got
  BY <1>1 DEF Counted, Terminators
<1>3. Terminators(s, r.cut + r.scanned, r.got) = ends
  <2>1. ASSUME NEW e \in ends PROVE e \in Terminators(s, r.cut + r.scanned, r.got)
    BY <1>1, <2>1 DEF Counted, Terminators
  <2>2. ASSUME NEW e \in Terminators(s, r.cut + r.scanned, r.got) PROVE e \in ends
    BY <1>1, <2>2 DEF Counted, Terminators
  <2> HIDE DEF ends
  <2> QED BY <2>1, <2>2, Zenon
<1> HIDE DEF ends
<1>4. ends # {} => Least(ends) \in ends
  BY <1>2, LeastFound, Zenon
<1>5. ends # {} => Least(ends) # 0
  BY <1>2, <1>4
<1>6. FrameEnd(r, s) = (IF ends = {} THEN 0 ELSE Least(ends))
  BY <1>3, Zenon DEF FrameEnd
<1>7. QED
  BY <1>2, <1>4, <1>5, <1>6, Zenon DEF ends

LEMMA ResponsesReply == \A n \in Responses : n \in Nat /\ n > 0
  BY TransportAssumption DEF Responses

\* A frame taken is the next one, and a full buffer without one is refused whole.
LEMMA ScanFrames ==
  ASSUME NEW r, NEW s, Framed(r, s), r.out = 0, NEW rest, NEW q \in Scan(r, s, rest)
  PROVE  Good(r, q, s) \/ (q \in rest /\ Terminators(s, r.cut, r.got) = {})
<1> DEFINE ends == Terminators(s, r.cut, r.got)
<1>1. Recorded(r) /\ Counted(r) /\ Answered(r)
  BY Zenon DEF Framed
<1>2. /\ FrameEnd(r, s) = (IF ends = {} THEN 0 ELSE Least(ends))
      /\ ends # {} => Least(ends) \in ends /\ Least(ends) # 0
      /\ ends \subseteq Nat /\ \A e \in ends : e <= r.got
  BY FrameFound, Zenon
<1>3. r.taken = r.told /\ r.taken + 1 \in Nat /\ r.told \in Nat /\ r.got \in Nat
      /\ r.avail \in Nat
  BY <1>1 DEF Counted, Answered
<1>4. \A e \in Nat : Terminators(s, e, e + 0 + 1) = {}
  BY DEF Terminators
<1>5. CASE FrameEnd(r, s) # 0
  <2>1. ends # {} /\ FrameEnd(r, s) \in ends /\ FrameEnd(r, s) = Least(ends)
    BY <1>2, <1>5, Zenon
  <2>2. PICK e \in ends : e = FrameEnd(r, s)
    BY <2>1, Zenon
  <2>3. PICK n \in Responses : q = ProcessFrame(r, e, n)
    BY <1>5, <2>2, Zenon DEF Scan
  <2>4. /\ Recorded(q) /\ q.cut = e /\ q.got = r.got /\ q.scanned = 0
        /\ q.out = n /\ q.taken = r.taken + 1 /\ q.told = r.told /\ q.avail = r.avail
    BY <1>1, <2>3, Zenon DEF ProcessFrame, Respond, Recorded
  <2>5. n \in Nat /\ n > 0 /\ e \in Nat /\ e <= r.got
    BY <1>2, <2>2, ResponsesReply, Zenon
  <2>6. Counted(q) /\ Answered(q)
    BY <1>3, <2>4, <2>5 DEF Counted, Answered
  <2>7. Terminators(s, q.cut, q.cut + q.scanned + 1) = {}
    BY <1>4, <2>4, <2>5, Zenon
  <2>8. NextFrame(r, q, s)
    BY <2>1, <2>2, <2>4, <2>6, Zenon DEF NextFrame, Answered
  <2> QED BY <2>4, <2>6, <2>7, <2>8, Zenon DEF Good, Framed
<1>6. CASE FrameEnd(r, s) = 0 /\ Buffered(r) = MaxRequest
  <2>1. q = RefuseOversized(r) /\ ends = {}
    BY <1>2, <1>6, Zenon DEF Scan
  <2>2. /\ Recorded(q) /\ q.cut = r.got /\ q.got = r.got /\ q.scanned = 0
        /\ q.out = 1 /\ q.taken = r.taken + 1 /\ q.told = r.told /\ q.closeAfter
        /\ q.avail = r.avail
    BY <1>1, <2>1, Zenon DEF RefuseOversized, Respond, Recorded
  <2>3. Counted(q) /\ Answered(q)
    BY <1>3, <2>2 DEF Counted, Answered
  <2>4. Terminators(s, q.cut, q.cut + q.scanned + 1) = {}
    BY <1>3, <1>4, <2>2, Zenon
  <2>5. q.cut = r.cut + MaxRequest
    BY <1>1, <1>6, <2>2 DEF Buffered, Counted
  <2>6. NextFrame(r, q, s)
    BY <2>1, <2>2, <2>3, <2>5, Zenon DEF NextFrame, Answered
  <2> QED BY <2>2, <2>3, <2>4, <2>6, Zenon DEF Good, Framed
<1>7. CASE FrameEnd(r, s) = 0 /\ Buffered(r) # MaxRequest
  <2>1. ends = {}
    BY <1>2, <1>7, Zenon
  <2> QED BY <1>7, <2>1, Zenon DEF Scan
<1> QED BY <1>5, <1>6, <1>7, Zenon

\* A scan that found nothing has passed all but the last byte.
LEMMA LookedFramed ==
  ASSUME NEW r, NEW s, Framed(r, s), Terminators(s, r.cut, r.got) = {}, NEW q,
         Recorded(q), q.scanned = Scanned(r), q.cut = r.cut, q.got = r.got,
         q.out = r.out, q.taken = r.taken, q.told = r.told, q.avail = r.avail
  PROVE  Good(r, q, s)
<1>1. Counted(r) /\ Answered(r)
  BY Zenon DEF Framed
<1>2. Counted(q) /\ Answered(q)
  BY <1>1 DEF Counted, Answered, Scanned, Buffered
<1>3. Terminators(s, q.cut, q.cut + q.scanned + 1) = {}
  <2>1. CASE r.got = r.cut
    BY <1>1, <2>1 DEF Counted, Scanned, Buffered, Terminators
  <2>2. CASE r.got # r.cut
    <3>1. q.cut + q.scanned + 1 = r.got
      BY <1>1, <2>2 DEF Counted, Scanned, Buffered
    <3> QED BY <3>1, Zenon
  <2> QED BY <2>1, <2>2, Zenon
<1> QED BY <1>2, <1>3, Zenon DEF Good, Framed, NextFrame

LEMMA RangeNatural ==
  ASSUME NEW a \in Nat, NEW b \in Nat, NEW k \in 1..(a - b) PROVE k \in Nat
  OBVIOUS

LEMMA MoreRead ==
  ASSUME NEW r, NEW q, NEW k \in Nat, Counted(r), Answered(r),
         q.scanned = r.scanned, q.cut = r.cut, q.got = r.got + k,
         q.out = r.out, q.taken = r.taken, q.told = r.told, q.avail = r.avail
  PROVE  Counted(q) /\ Answered(q)
  BY DEF Counted, Answered

LEMMA ReadFrames ==
  ASSUME NEW r, NEW s, Framed(r, s), r.out = 0, NEW q \in ReadOn(r, s)
  PROVE  Good(r, q, s)
<1> DEFINE looked == [r EXCEPT !.scanned = Scanned(r)]
           room == {k \in 1..(r.avail - r.got) : k <= IoBudget /\ k <= MaxRequest - Buffered(r)}
           Read(k) == [looked EXCEPT !.got = @ + k,
                         !.readDl = IF @ = "off" THEN "on" ELSE @,
                         !.owner = IF r.readDl = "off" THEN r.got + k ELSE @]
           Waiting(p) == [p EXCEPT !.scanned = Scanned(p), !.mask = "read"]
           rest == IF r.got < r.avail
                   THEN UNION {Scan(Read(k), s, {Waiting(Read(k))}) : k \in room}
                   ELSE IF r.peer # "up" THEN {Close(looked)} ELSE {Waiting(looked)}
<1>1. Recorded(r)
  BY Zenon DEF Framed
<1>2. q \in Scan(r, s, rest)
  BY Zenon DEF ReadOn
<1>3. Good(r, q, s) \/ (q \in rest /\ Terminators(s, r.cut, r.got) = {})
  <2> HIDE DEF rest
  <2> QED BY <1>2, ScanFrames, Zenon
<1> SUFFICES ASSUME q \in rest, Terminators(s, r.cut, r.got) = {} PROVE Good(r, q, s)
  BY <1>3, Zenon
<1>4. PICK p : p = looked
  BY Zenon
<1>5. /\ Recorded(p) /\ p.scanned = Scanned(r) /\ p.cut = r.cut /\ p.got = r.got
      /\ p.out = r.out /\ p.taken = r.taken /\ p.told = r.told /\ p.avail = r.avail
  BY <1>1, <1>4, Zenon DEF Recorded
<1>6. Framed(p, s)
  BY <1>5, LookedFramed, Zenon DEF Good
<1>7. CASE q = Close(looked)
  <2>1. /\ Recorded(q) /\ q.scanned = Scanned(r) /\ q.cut = r.cut /\ q.got = r.got
        /\ q.out = r.out /\ q.taken = r.taken /\ q.told = r.told /\ q.avail = r.avail
    BY <1>4, <1>5, <1>7, Zenon DEF Recorded, Close
  <2> QED BY <2>1, LookedFramed, Zenon
<1>8. CASE q = Waiting(looked)
  <2>1. Scanned(p) = Scanned(r)
    BY <1>5, Zenon DEF Scanned, Buffered
  <2>2. /\ Recorded(q) /\ q.scanned = Scanned(p) /\ q.cut = p.cut /\ q.got = p.got
        /\ q.out = p.out /\ q.taken = p.taken /\ q.told = p.told /\ q.avail = p.avail
    <3> HIDE DEF looked
    <3> QED BY <1>4, <1>5, <1>8, Zenon DEF Recorded
  <2> QED BY <1>5, <2>1, <2>2, LookedFramed, Zenon
<1>9. ASSUME NEW k \in room, q \in Scan(Read(k), s, {Waiting(Read(k))}) PROVE Good(r, q, s)
  <2>1. PICK u : u = Read(k)
    BY Zenon
  <2>2. /\ Recorded(u) /\ u.scanned = p.scanned /\ u.cut = p.cut /\ u.got = p.got + k
        /\ u.out = p.out /\ u.taken = p.taken /\ u.told = p.told /\ u.avail = p.avail
    <3> HIDE DEF looked
    <3> QED BY <1>4, <1>5, <2>1, Zenon DEF Recorded
  <2>3. k \in Nat
    <3>1. r.avail \in Nat /\ r.got \in Nat
      BY Zenon DEF Framed, Counted
    <3>2. k \in 1..(r.avail - r.got)
      BY Zenon
    <3> QED BY <3>1, <3>2, RangeNatural, Zenon
  <2>4. Framed(u, s)
    <3>1. Counted(p) /\ Answered(p)
      BY <1>6, Zenon DEF Framed
    <3>2. Counted(u) /\ Answered(u)
      BY <2>2, <2>3, <3>1, MoreRead, Zenon
    <3> QED BY <1>6, <2>2, <3>2, Zenon DEF Framed
  <2>5. u.out = 0
    BY <1>5, <2>2, Zenon
  <2>6. PICK v : v = Waiting(u)
    BY Zenon
  <2>7. q \in Scan(u, s, {v})
    BY <1>9, <2>1, <2>6, Zenon
  <2>8. Good(u, q, s) \/ (q = v /\ Terminators(s, u.cut, u.got) = {})
    <3>1. Good(u, q, s) \/ (q \in {v} /\ Terminators(s, u.cut, u.got) = {})
      BY <2>4, <2>5, <2>7, ScanFrames, Zenon
    <3> QED BY <3>1, Zenon
  <2>9. q = v => /\ Recorded(q) /\ q.scanned = Scanned(u) /\ q.cut = u.cut /\ q.got = u.got
                 /\ q.out = u.out /\ q.taken = u.taken /\ q.told = u.told /\ q.avail = u.avail
    BY <2>2, <2>6, Zenon DEF Recorded
  <2>10. Good(u, q, s)
    BY <2>4, <2>8, <2>9, LookedFramed, Zenon
  <2>11. u.cut = r.cut
    BY <1>5, <2>2, Zenon
  <2> QED BY <2>10, <2>11, Zenon DEF Good, NextFrame
<1> QED
  <2> HIDE DEF Read, Waiting, looked, room
  <2> QED BY <1>7, <1>8, <1>9, Zenon

\* One dispatch: the reply first, then at most the next frame.
LEMMA StepFrames ==
  ASSUME NEW r, NEW s, Framed(r, s), NEW q \in StepResults(r, s)
  PROVE  Good(r, q, s)
<1>1. Recorded(r) /\ Counted(r) /\ Answered(r)
  BY Zenon DEF Framed
<1>2. \A p : Recorded(p) /\ p.avail \in Nat =>
        Alike(p, Close(p)) /\ Alike(p, [p EXCEPT !.mask = "write"])
  BY Zenon DEF Alike, Recorded, Close
<1>3. r.avail \in Nat /\ r.out \in Nat
  BY <1>1, Zenon DEF Counted
<1>4. CASE q = Close(r) \/ q = [r EXCEPT !.mask = "write"]
  <2>1. Alike(r, q)
    BY <1>1, <1>2, <1>3, <1>4, Zenon
  <2> QED BY <2>1, AlikeGood, Zenon
<1>5. CASE r.out = 0 /\ q \in ReadOn(r, s)
  BY <1>5, ReadFrames, Zenon
<1>6. ASSUME NEW p \in Writes(r), r.out # 0,
             \/ p.out > 0 /\ q = [p EXCEPT !.mask = "write"]
             \/ ~(p.out > 0) /\ q = Close(Flushed(p))
             \/ ~(p.out > 0) /\ q \in ReadOn(Flushed(p), s)
      PROVE  Good(r, q, s)
  <2>1. PICK k \in {n \in 1..r.out : n <= IoBudget}, writable \in BOOLEAN :
          p = Written(r, k, writable)
    BY <1>6 DEF Writes
  <2>2. k \in 1..r.out
    BY <2>1, Zenon
  <2>3. /\ Recorded(p) /\ p.scanned = r.scanned /\ p.cut = r.cut /\ p.got = r.got
        /\ p.out = r.out - k /\ p.taken = r.taken /\ p.told = r.told /\ p.avail = r.avail
    BY <1>1, <2>1, Zenon DEF Written, Recorded
  <2>4. p.out \in Nat
    BY <1>3, <2>2, <2>3
  <2>5. CASE p.out > 0
    <3>1. q = [p EXCEPT !.mask = "write"]
      BY <1>6, <2>5, Zenon
    <3>2. Counted(p) /\ Answered(p)
      BY <1>1, <1>3, <1>6, <2>3, <2>4, <2>5 DEF Counted, Answered
    <3>3. Framed(p, s)
      BY <2>3, <3>2, Zenon DEF Framed
    <3>4. Alike(p, q)
      BY <1>2, <1>3, <2>3, <3>1, Zenon
    <3>5. Good(p, q, s)
      BY <3>3, <3>4, AlikeGood, Zenon
    <3> QED BY <2>3, <3>5, Zenon DEF Good, NextFrame
  <2>6. CASE ~(p.out > 0)
    <3>1. PICK f : f = Flushed(p)
      BY Zenon
    <3>2. /\ Recorded(f) /\ f.scanned = r.scanned /\ f.cut = r.cut /\ f.got = r.got
          /\ f.out = p.out /\ f.taken = r.taken /\ f.told = r.told + 1 /\ f.avail = r.avail
      BY <2>3, <3>1, Zenon DEF Flushed, Recorded
    <3>3. f.out = 0
      BY <2>4, <2>6, <3>2
    <3>4. Counted(f) /\ Answered(f)
      BY <1>1, <1>3, <1>6, <3>2, <3>3 DEF Counted, Answered
    <3>5. Framed(f, s)
      BY <3>2, <3>4, Zenon DEF Framed
    <3>6. q = Close(f) \/ q \in ReadOn(f, s)
      BY <1>6, <2>6, <3>1, Zenon
    <3>7. q = Close(f) => Alike(f, q)
      BY <1>2, <1>3, <3>2, Zenon
    <3>8. Good(f, q, s)
      BY <3>3, <3>5, <3>6, <3>7, AlikeGood, ReadFrames, Zenon
    <3> QED BY <3>2, <3>8, Zenon DEF Good, NextFrame
  <2> QED BY <2>5, <2>6, Zenon
<1> QED BY <1>4, <1>5, <1>6, Zenon DEF StepResults

FramesKept ==
  /\ DOMAIN conn = Conns /\ conn = [c \in Conns |-> conn[c]]
  /\ \A c \in Conns : Framed(conn[c], stream[c])

Advance ==
  /\ stream' = stream
  /\ DOMAIN conn' = Conns /\ conn' = [c \in Conns |-> conn'[c]]
  /\ \A c \in Conns : Good(conn[c], conn'[c], stream[c])

LEMMA AlikeItself == ASSUME NEW r, NEW s, Framed(r, s) PROVE Alike(r, r)
  BY Zenon DEF Framed, Counted, Alike

LEMMA OneAdvances ==
  ASSUME FramesKept, NEW c \in Conns, NEW r, Good(conn[c], r, stream[c]),
         conn' = [conn EXCEPT ![c] = r], stream' = stream
  PROVE  Advance
<1>1. DOMAIN conn = Conns /\ \A x \in Conns : Framed(conn[x], stream[x])
  BY Zenon DEF FramesKept
<1>2. DOMAIN conn' = Conns /\ conn' = [x \in Conns |-> conn'[x]]
  BY <1>1, Zenon
<1>3. \A x \in Conns : Good(conn[x], conn[x], stream[x])
  BY <1>1, AlikeItself, AlikeGood, Zenon
<1>4. conn'[c] = r /\ \A x \in Conns : x # c => conn'[x] = conn[x]
  BY <1>1, Zenon
<1>5. \A x \in Conns : Good(conn[x], conn'[x], stream[x])
  BY <1>3, <1>4, Zenon
<1> QED BY <1>2, <1>5, Zenon DEF Advance

\* What the watchdog, time, the clients and the listener change is not the input.
LEMMA OthersAdvance ==
  ASSUME FramesKept, NEW c \in Conns,
         \/ Cancel(c) \/ Elapse(c) \/ ClientSends(c) \/ ClientReads(c) \/ ClientCloses(c)
         \/ \E w \in Workers : Accept(w, c) \/ Register(w, c)
  PROVE  Advance
<1>1. /\ DOMAIN conn = Conns /\ Framed(conn[c], stream[c]) /\ Recorded(conn[c])
      /\ conn[c].avail \in Nat /\ conn[c].avail + 1 \in Nat
  <2>1. Framed(conn[c], stream[c]) /\ DOMAIN conn = Conns
    BY Zenon DEF FramesKept
  <2>2. Recorded(conn[c]) /\ conn[c].avail \in Nat
    BY <2>1, Zenon DEF Framed, Counted
  <2> QED BY <2>1, <2>2
<1>2. stream' = stream
  BY Zenon DEF Cancel, Elapse, ClientSends, ClientReads, ClientCloses, Accept, Register
<1>3. PICK p : p = conn[c]
  BY Zenon
<1>4. Recorded(p) /\ p.avail \in Nat /\ p.avail + 1 \in Nat
  BY <1>1, <1>3, Zenon
<1> SUFFICES \E r : Alike(p, r) /\ conn' = [conn EXCEPT ![c] = r]
  BY <1>1, <1>2, <1>3, AlikeGood, OneAdvances, Zenon
<1>5. CASE conn' = conn
  <2>1. Alike(p, p) /\ conn' = [conn EXCEPT ![c] = p]
    BY <1>1, <1>3, <1>5, AlikeItself, Zenon DEF FramesKept
  <2> QED BY <2>1, Zenon
<1>6. ASSUME NEW phase, conn' = [conn EXCEPT ![c] = [p EXCEPT !.phase = phase]]
      PROVE  \E r : Alike(p, r) /\ conn' = [conn EXCEPT ![c] = r]
  <2>1. Alike(p, [p EXCEPT !.phase = phase])
    BY <1>4, Zenon DEF Alike, Recorded
  <2> QED BY <1>6, <2>1, Zenon
<1>7. CASE Elapse(c)
  <2>1. PICK r : r = [p EXCEPT !.readDl = IF @ = "on" THEN "past" ELSE @,
                        !.writeDl = IF @ = "on" /\ conn[c].readDl # "on" THEN "past" ELSE @]
    BY Zenon
  <2>2. conn' = [conn EXCEPT ![c] = r]
    BY <1>1, <1>3, <1>7, <2>1, Zenon DEF Elapse
  <2>3. Alike(p, r)
    BY <1>4, <2>1, Zenon DEF Alike, Recorded
  <2> QED BY <2>2, <2>3, Zenon
<1>8. CASE ClientSends(c)
  <2>1. conn' = [conn EXCEPT ![c] = [p EXCEPT !.avail = p.avail + 1]]
    BY <1>3, <1>8, Zenon DEF ClientSends
  <2>2. Alike(p, [p EXCEPT !.avail = p.avail + 1])
    BY <1>4, Zenon DEF Alike, Recorded
  <2> QED BY <2>1, <2>2, Zenon
<1>9. CASE ClientReads(c)
  <2>1. conn' = [conn EXCEPT ![c] = [p EXCEPT !.writable = TRUE]]
    BY <1>3, <1>9, Zenon DEF ClientReads
  <2>2. Alike(p, [p EXCEPT !.writable = TRUE])
    BY <1>4, Zenon DEF Alike, Recorded
  <2> QED BY <2>1, <2>2, Zenon
<1>10. CASE ClientCloses(c)
  <2>1. PICK how \in {"half", "closed"} : conn' = [conn EXCEPT ![c] = [p EXCEPT !.peer = how]]
    BY <1>3, <1>10, Zenon DEF ClientCloses
  <2>2. Alike(p, [p EXCEPT !.peer = how])
    BY <1>4, Zenon DEF Alike, Recorded
  <2> QED BY <2>1, <2>2, Zenon
<1>11. CASE Cancel(c) \/ \E w \in Workers : Accept(w, c) \/ Register(w, c)
  <2>1. conn' = conn \/ \E phase : conn' = [conn EXCEPT ![c] = [p EXCEPT !.phase = phase]]
    BY <1>3, <1>11, Zenon DEF Cancel, Accept, Register
  <2> QED BY <1>5, <1>6, <2>1, Zenon
<1> QED BY <1>7, <1>8, <1>9, <1>10, <1>11, Zenon

LEMMA WatchdogAdvances ==
  ASSUME FramesKept, NEW busy \in SUBSET registry, Watchdog(busy)
  PROVE  Advance
<1> DEFINE late == {c \in registry \ busy :
                      c \in LiveConns /\ ~conn[c].expired /\ TimedOut(conn[c])}
<1>1. /\ conn' = [c \in Conns |->
                    IF c \in late THEN [conn[c] EXCEPT !.expired = TRUE] ELSE conn[c]]
      /\ stream' = stream
  BY Zenon DEF Watchdog
<1> HIDE DEF late
<1>2. DOMAIN conn' = Conns /\ conn' = [c \in Conns |-> conn'[c]]
  BY <1>1, Zenon
<1>3. ASSUME NEW c \in Conns PROVE Good(conn[c], conn'[c], stream[c])
  <2>1. Framed(conn[c], stream[c])
    BY Zenon DEF FramesKept
  <2>2. Alike(conn[c], conn[c])
    BY <2>1, AlikeItself, Zenon
  <2>3. Alike(conn[c], [conn[c] EXCEPT !.expired = TRUE])
    BY <2>2, Zenon DEF Alike, Recorded
  <2>4. Alike(conn[c], conn'[c])
    BY <1>1, <2>2, <2>3, Zenon
  <2> QED BY <2>1, <2>4, AlikeGood, Zenon
<1> QED BY <1>1, <1>2, <1>3, Zenon DEF Advance

LEMMA NextAdvances == ASSUME FramesKept, TransportNext PROVE Advance
<1>1. ASSUME NEW c \in Conns, Step(c) PROVE Advance
  <2>1. PICK r \in StepResults(conn[c], stream[c]) : conn' = [conn EXCEPT ![c] = r]
    BY <1>1, Zenon DEF Step
  <2>2. stream' = stream
    BY <1>1, Zenon DEF Step
  <2>3. Framed(conn[c], stream[c])
    BY Zenon DEF FramesKept
  <2>4. Good(conn[c], r, stream[c])
    BY <2>3, StepFrames, Zenon
  <2> QED BY <2>1, <2>2, <2>4, OneAdvances, Zenon
<1> QED BY <1>1, OthersAdvance, WatchdogAdvances, Zenon DEF TransportNext

LEMMA AdvanceKeeps == ASSUME Advance PROVE FramesKept'
<1>1. Conns' = Conns
  BY Zenon DEF Conns
<1>2. \A c \in Conns : Framed(conn'[c], stream'[c])
  BY Zenon DEF Advance, Good
<1> QED BY <1>1, <1>2, Zenon DEF FramesKept, Advance

LEMMA FramesInit == TransportInit => FramesKept
<1> SUFFICES ASSUME TransportInit PROVE FramesKept
  BY Zenon
<1>1. conn = [c \in Conns |->
                [New(c) EXCEPT !.phase = IF c # Fd THEN "new"
                                         ELSE IF inherited THEN "open" ELSE "gone"]]
  BY Zenon DEF TransportInit
<1>2. ASSUME NEW c \in Conns PROVE Framed(conn[c], stream[c])
  <2>1. PICK r : r = conn[c]
    BY Zenon
  <2>2. /\ Recorded(r) /\ r.cut = 0 /\ r.got = 0 /\ r.scanned = 0
        /\ r.out = 0 /\ r.taken = 0 /\ r.told = 0 /\ r.avail = 0
    BY <1>1, <2>1, Zenon DEF New, Recorded
  <2>3. Counted(r) /\ Answered(r)
    BY <2>2 DEF Counted, Answered
  <2>4. Terminators(stream[c], 0, 0 + 0 + 1) = {}
    BY DEF Terminators
  <2>5. Terminators(stream[c], r.cut, r.cut + r.scanned + 1) = {}
    BY <2>2, <2>4, Zenon
  <2> QED BY <2>1, <2>2, <2>3, <2>5, Zenon DEF Framed
<1> QED BY <1>1, <1>2, Zenon DEF FramesKept

\* However reads split the stream, a command is the next frame of it, whole, and
\* follows the replies to those before: FramesInOrder (step, frame_end,
\* process_frame, refuse_oversized).
THEOREM CommandsInOrder == TransportSpec => FramesInOrder
<1> DEFINE InOrder == \A c \in Conns : NextFrame(conn[c], conn'[c], stream[c])
<1>1. TransportInit => FramesKept
  BY FramesInit, Zenon
<1>2. FramesKept /\ [TransportNext]_transportVars => FramesKept'
  <2> SUFFICES ASSUME FramesKept, [TransportNext]_transportVars PROVE FramesKept'
    BY Zenon
  <2>1. CASE UNCHANGED transportVars
    <3>1. conn' = conn /\ stream' = stream
      BY <2>1, Zenon DEF transportVars
    <3> QED BY <3>1, Zenon DEF FramesKept, Framed, Recorded, Counted, Answered, Terminators, Conns
  <2> QED BY <2>1, NextAdvances, AdvanceKeeps, Zenon
<1>3. FramesKept /\ [TransportNext]_transportVars => [InOrder]_transportVars
  BY NextAdvances, Zenon DEF Advance, Good
<1>4. [][InOrder]_transportVars => FramesInOrder
  BY Zenon DEF FramesInOrder, NextFrame
<1> HIDE DEF InOrder
<1> QED BY <1>1, <1>2, <1>3, <1>4, PTL DEF TransportSpec
=============================================================================
