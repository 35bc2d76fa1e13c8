----------------------------- MODULE DeviceConfig -----------------------------
(***************************************************************************)
(* The device's configuration: set=1 transactions read line by line        *)
(* (device/api.rs) and what they do to the peers, the prefix index, the    *)
(* keys and the AmneziaWG settings (device/mod.rs, device/allowed_ips.rs), *)
(* beside the once-a-second MTU monitor.                                   *)
(*                                                                         *)
(* A transaction holds the device's write lock from its first line to its  *)
(* status, and applies its sections as it reads them.  A value sent for a  *)
(* peer's attribute is named after that peer, so that a value reaching     *)
(* another peer would show.  Addresses have AddrBits bits.                 *)
(***************************************************************************)
EXTENDS Integers, FiniteSets

CONSTANTS
  Keys,           \* peers' public keys
  Attrs,          \* what a section may set: preshared_key, endpoint, keepalive
  AllowedIps,     \* the allowed_ip lines that may be sent: <<address, cidr>>
  AddrBits,
  PrivateKeys,    \* what private_key= may carry
  Params,         \* the AmneziaWG keys of set=1
  Values,         \* their values
  Defaults,       \* their values at the start
  Mtus,           \* what the interface may report
  MtuMax,         \* u16::MAX
  None,
  Clients,        \* bounds: which of these a behaviour uses
  MaxIndex,       \* bound: peer indexes handed out
  MaxLimiters     \* bound: rate limiters built

Settings == [params: [Params -> Values], mtu: Nat]
Peer == [index: Nat, attrs: [Attrs -> Keys \cup {None}], private: PrivateKeys,
         limiter: Nat, settings: Settings]

ASSUME ConfigAssumption ==
  /\ AddrBits \in Nat /\ MaxIndex \in Nat /\ MaxLimiters \in Nat
  /\ \A ip \in AllowedIps : ip[1] \in 0..(2^AddrBits - 1) /\ ip[2] \in 0..AddrBits
  /\ Mtus \subseteq Nat \ {0} /\ MtuMax \in Nat \ {0}
  /\ None \notin Keys \cup PrivateKeys \cup Values \cup Peer
  /\ Defaults \in [Params -> Values]
  /\ Clients \subseteq [attrs: SUBSET Attrs, ips: SUBSET AllowedIps, keys: SUBSET PrivateKeys,
                       values: SUBSET Values, mtus: SUBSET Mtus]

VARIABLES
  peers,          \* Device::peers: each key's peer, or None
  byIdx,          \* peers_by_idx: the indexes that are routed
  byIp,           \* peers_by_ip: network to the index of its peer, or 0
  keyPair,        \* key_pair: the private key, or None
  limiter,        \* rate_limiter: which one was built, 0 for none
  settings,       \* config.obf and config.amnezia
  nextIndex,      \* indexes spent
  mtu,            \* Device::mtu, last read from the interface
  refresh,        \* the MTU monitor's captured reading, 0 when it is not waiting
  txn,            \* the transaction in progress
  given,          \* history: the lines of the section being read
  claim,          \* history: the key each network was last given to
  client          \* the lines and readings of this behaviour

vars == <<peers, byIdx, byIp, keyPair, limiter, settings, nextIndex, mtu, refresh, txn, given,
          claim, client>>

Unset == [p \in Params |-> None]
PeerSection == [remove |-> FALSE, update_only |-> FALSE, replace |-> FALSE,
                attrs |-> [a \in Attrs |-> None], ips |-> {}]
Idle == [at |-> "idle", awg |-> Unset, key |-> None, sec |-> PeerSection, unread |-> FALSE]
Live == {k \in Keys : peers[k] # None}
KeyOf(i) == IF \E k \in Live : peers[k].index = i
            THEN CHOOSE k \in Live : peers[k].index = i ELSE None

\* `65536 as u16` would be 0, which content_padding reads as no clamp at all.
Saturated(m) == IF m > MtuMax THEN MtuMax ELSE m

-----------------------------------------------------------------------------
(***************************************************************************)
(* AllowedIps: networks, truncated on insertion, matched by the longest.   *)
(***************************************************************************)
NewTruncate(ip) ==
  LET host == 2^(AddrBits - ip[2]) IN <<(ip[1] \div host) * host, ip[2]>>

Networks == {NewTruncate(ip) : ip \in AllowedIps}
Contains(net, a) == NewTruncate(<<a, net[2]>>) = net

Find(a) ==
  LET found == {net \in Networks : byIp[net] # 0 /\ Contains(net, a)}
  IN IF found = {} THEN 0
     ELSE byIp[CHOOSE net \in found : \A other \in found : other[2] <= net[2]]

Removed(index, i) == [net \in Networks |-> IF index[net] = i THEN 0 ELSE index[net]]
Inserted(index, nets, i) == [net \in Networks |-> IF net \in nets THEN i ELSE index[net]]

Init ==
  /\ peers = [k \in Keys |-> None] /\ byIdx = {} /\ byIp = [net \in Networks |-> 0]
  /\ keyPair = None /\ limiter = 0 /\ nextIndex = 0
  /\ client \in Clients /\ mtu \in client.mtus
  /\ settings = [params |-> Defaults, mtu |-> Saturated(mtu)]
  /\ refresh = 0 /\ txn = Idle /\ given = {} /\ claim = [net \in Networks |-> None]

-----------------------------------------------------------------------------
(***************************************************************************)
(* The interface's lines.                                                  *)
(***************************************************************************)
Set ==
  /\ txn.at = "idle" /\ txn' = [Idle EXCEPT !.at = "device"]
  /\ UNCHANGED <<peers, byIdx, byIp, keyPair, limiter, settings, nextIndex, mtu, refresh, given, claim>>

\* An error ends the transaction and takes nothing back.
Fail ==
  /\ txn' = [txn EXCEPT !.at = "failed"]
  /\ UNCHANGED <<peers, byIdx, byIp, keyPair, limiter, settings, nextIndex, mtu, refresh, given, claim>>

\* set_key; the key already in force changes nothing.
SetKey(private) ==
  /\ txn.at = "device" /\ private # keyPair /\ limiter < MaxLimiters
  /\ keyPair' = private /\ limiter' = limiter + 1
  /\ peers' = [k \in Keys |-> IF peers[k] = None THEN None
                              ELSE [peers[k] EXCEPT !.private = private, !.limiter = limiter + 1]]
  /\ UNCHANGED <<byIdx, byIp, settings, nextIndex, mtu, refresh, txn, given, claim>>

\* replace_peers=true
ClearPeers ==
  /\ txn.at = "device"
  /\ peers' = [k \in Keys |-> None] /\ byIdx' = {} /\ byIp' = [net \in Networks |-> 0]
  /\ claim' = [net \in Networks |-> None]
  /\ UNCHANGED <<keyPair, limiter, settings, nextIndex, mtu, refresh, txn, given>>

\* AwgParams collects; nothing is applied yet.
AwgLine(p, v) ==
  /\ txn.at = "device"
  /\ txn' = [txn EXCEPT !.awg[p] = v]
  /\ UNCHANGED <<peers, byIdx, byIp, keyPair, limiter, settings, nextIndex, mtu, refresh, given, claim>>

\* merged: what the transaction said over what is in force, and the MTU as last read.
Merged ==
  [settings EXCEPT !.params = [p \in Params |-> IF txn.awg[p] = None THEN @[p] ELSE txn.awg[p]],
                   !.mtu = Saturated(mtu)]

\* ObfuscationRanges::new refuses headers that overlap; AmneziaConfig::validate, which
\* judges the finished configuration too, is not told apart from it.
Valid(s) == \A p, q \in Params : s.params[p] = s.params[q] => p = q

\* AwgParams::apply and set_obfuscation, which pushes the settings to every peer.
Apply ==
  LET new == IF txn.awg = Unset THEN settings ELSE Merged IN
  /\ settings' = new
  /\ peers' = [k \in Keys |-> IF peers[k] = None \/ new = settings THEN peers[k]
                              ELSE [peers[k] EXCEPT !.settings = new]]

Applies == txn.awg = Unset \/ Valid(Merged)

\* The blank line before any peer section.
DeviceDone ==
  /\ txn.at = "device" /\ Applies /\ Apply
  /\ txn' = [txn EXCEPT !.at = "done"]
  /\ UNCHANGED <<byIdx, byIp, keyPair, limiter, nextIndex, mtu, refresh, given, claim>>

\* The staged settings are left for the end of the transaction.
FirstPeerUnapplied(k) ==
  /\ txn.at = "device" /\ Applies
  /\ txn' = [txn EXCEPT !.at = "peer", !.key = k, !.sec = PeerSection]
  /\ given' = {}
  /\ UNCHANGED <<peers, settings, byIdx, byIp, keyPair, limiter, nextIndex, mtu, refresh, claim>>

\* The first public_key=: the settings are applied before a peer can copy them.
FirstPeer(k) ==
  /\ txn.at = "device" /\ Applies /\ Apply
  /\ txn' = [txn EXCEPT !.at = "peer", !.key = k, !.sec = PeerSection]
  /\ given' = {}
  /\ UNCHANGED <<byIdx, byIp, keyPair, limiter, nextIndex, mtu, refresh, claim>>

AwgRefused == txn.at = "device" /\ ~Applies /\ Fail

-----------------------------------------------------------------------------
(***************************************************************************)
(* A peer's section: its lines collect in txn.sec until the section ends.  *)
(***************************************************************************)
SectionLine ==
  /\ txn.at = "peer"
  /\ \/ txn' = [txn EXCEPT !.sec.remove = TRUE] /\ given' = given \cup {"remove"}
     \/ txn' = [txn EXCEPT !.sec.remove = FALSE] /\ given' = given \ {"remove"}
     \/ txn' = [txn EXCEPT !.sec.update_only = TRUE] /\ given' = given \cup {"update_only"}
     \/ \E b \in BOOLEAN : txn' = [txn EXCEPT !.sec.replace = b] /\ UNCHANGED given
     \/ \E a \in client.attrs : txn' = [txn EXCEPT !.sec.attrs[a] = txn.key] /\ UNCHANGED given
     \/ \E ip \in client.ips : txn' = [txn EXCEPT !.sec.ips = @ \cup {NewTruncate(ip)}] /\ UNCHANGED given
  /\ UNCHANGED <<peers, byIdx, byIp, keyPair, limiter, settings, nextIndex, mtu, refresh, claim>>

RemovePeer(k) ==
  /\ peers' = [peers EXCEPT ![k] = None]
  /\ byIdx' = byIdx \ {peers[k].index}
  /\ byIp' = Removed(byIp, peers[k].index)
  /\ UNCHANGED nextIndex

Overlaid(old, new) == [a \in Attrs |-> IF new[a] = None THEN old[a] ELSE new[a]]

\* Additive: the peer's own networks are not carried over.
MergePeerDrops(k, sec) ==
  /\ peers' = [peers EXCEPT ![k].attrs = Overlaid(@, sec.attrs)]
  /\ byIp' = IF sec.replace \/ sec.ips # {}
             THEN Inserted(Removed(byIp, peers[k].index), sec.ips, peers[k].index) ELSE byIp
  /\ UNCHANGED <<byIdx, nextIndex>>

\* Only what was sent is touched; the index is emptied of this peer first.
MergePeer(k, sec) ==
  LET i == peers[k].index
      own == {net \in Networks : byIp[net] = i}
      prefixes == (IF sec.replace THEN {} ELSE own) \cup sec.ips
  IN /\ peers' = [peers EXCEPT ![k].attrs = Overlaid(@, sec.attrs)]
     /\ byIp' = IF sec.replace \/ sec.ips # {} THEN Inserted(Removed(byIp, i), prefixes, i) ELSE byIp
     /\ UNCHANGED <<byIdx, nextIndex>>

AddPeer(k, sec) ==
  /\ nextIndex' = nextIndex + 1
  /\ peers' = [peers EXCEPT ![k] =
       [index |-> nextIndex + 1, attrs |-> sec.attrs, private |-> keyPair,
        limiter |-> limiter, settings |-> settings]]
  /\ byIdx' = byIdx \cup {nextIndex + 1}
  /\ byIp' = Inserted(byIp, sec.ips, nextIndex + 1)

\* A network last given to a section's peer is its own until it is given to
\* another, replaced away or its peer goes.
Claims(k, sec) ==
  [net \in Networks |->
     IF sec.remove THEN IF claim[net] = k THEN None ELSE claim[net]
     ELSE IF net \in sec.ips THEN k
     ELSE IF claim[net] = k /\ sec.replace THEN None ELSE claim[net]]

\* commit_peer and update_peer
CommitPeer(k, sec) ==
  IF peers[k] = None /\ (sec.update_only \/ sec.remove)
  THEN UNCHANGED <<peers, byIdx, byIp, nextIndex, claim>>
  ELSE /\ claim' = Claims(k, sec)
       /\ IF sec.remove THEN RemovePeer(k)
          ELSE IF peers[k] # None THEN MergePeer(k, sec)
          ELSE keyPair # None /\ nextIndex < MaxIndex /\ AddPeer(k, sec)

\* Only the allowed IPs of the last section are dropped.
NextPeerKeeps(k) ==
  /\ txn.at = "peer" /\ CommitPeer(txn.key, txn.sec)
  /\ txn' = [txn EXCEPT !.key = k, !.sec.ips = {}]
  /\ given' = {}
  /\ UNCHANGED <<keyPair, limiter, settings, mtu, refresh>>

\* The next public_key= commits this section and starts from nothing.
NextPeer(k) ==
  /\ txn.at = "peer" /\ CommitPeer(txn.key, txn.sec)
  /\ txn' = [txn EXCEPT !.key = k, !.sec = PeerSection]
  /\ given' = {}
  /\ UNCHANGED <<keyPair, limiter, settings, mtu, refresh>>

PeersDone ==
  /\ txn.at = "peer" /\ CommitPeer(txn.key, txn.sec)
  /\ txn' = [txn EXCEPT !.at = "done"]
  /\ UNCHANGED <<keyPair, limiter, settings, mtu, refresh, given>>

\* A peer named before private_key=: its index is spent all the same.
NoKeyPair ==
  /\ txn.at = "peer" /\ keyPair = None /\ nextIndex < MaxIndex
  /\ peers[txn.key] = None /\ ~txn.sec.update_only /\ ~txn.sec.remove
  /\ nextIndex' = nextIndex + 1
  /\ txn' = [txn EXCEPT !.at = "failed"]
  /\ UNCHANGED <<peers, byIdx, byIp, keyPair, limiter, settings, mtu, refresh, given, claim>>

\* A line that does not parse.
BadLine == txn.at \in {"device", "peer"} /\ Fail

\* read_line refuses bytes that are not text: the loop ends, with status 0.
Unreadable ==
  /\ txn.at \in {"device", "peer"}
  /\ txn' = [txn EXCEPT !.at = "done", !.unread = TRUE]
  /\ UNCHANGED <<peers, byIdx, byIp, keyPair, limiter, settings, nextIndex, mtu, refresh, given, claim>>

Reply ==
  /\ txn.at \in {"done", "failed"} /\ txn' = Idle /\ given' = {}
  /\ UNCHANGED <<peers, byIdx, byIp, keyPair, limiter, settings, nextIndex, mtu, refresh, claim>>

-----------------------------------------------------------------------------
(***************************************************************************)
(* The MTU monitor reads the interface under the read lock and, when the   *)
(* clamp differs, waits for the write lock with its reading in hand; a     *)
(* transaction may come first.                                             *)
(***************************************************************************)
ReadMtu(m) ==
  /\ txn.at = "idle" /\ refresh = 0
  /\ mtu' = m
  /\ refresh' = IF settings.mtu = Saturated(m) THEN 0 ELSE Saturated(m)
  /\ UNCHANGED <<peers, byIdx, byIp, keyPair, limiter, settings, nextIndex, txn, given, claim>>

PushMtu ==
  /\ txn.at = "idle" /\ refresh # 0
  /\ settings' = [settings EXCEPT !.mtu = refresh]
  /\ peers' = [k \in Keys |-> IF peers[k] = None THEN None
                              ELSE [peers[k] EXCEPT !.settings.mtu = refresh]]
  /\ refresh' = 0
  /\ UNCHANGED <<byIdx, byIp, keyPair, limiter, nextIndex, mtu, txn, given, claim>>

Next ==
  /\ \/ Set \/ Reply \/ BadLine \/ Unreadable
     \/ \E private \in client.keys : SetKey(private)
     \/ ClearPeers \/ DeviceDone \/ AwgRefused
     \/ \E p \in Params, v \in client.values : AwgLine(p, v)
     \/ \E k \in Keys : FirstPeer(k) \/ NextPeer(k)
     \/ SectionLine \/ PeersDone \/ NoKeyPair
     \/ \E m \in client.mtus : ReadMtu(m)
     \/ PushMtu
  /\ UNCHANGED client

Spec == Init /\ [][Next]_vars

-----------------------------------------------------------------------------
\* A network routes to the peer it was last given to, however it moved between
\* peers, through additive and replacing sections, removals and re-additions.
\* The three maps of peers name the same ones, so every address routes to a peer
\* that is there or nowhere.
RoutesAsClaimed ==
  /\ byIdx = {peers[k].index : k \in Live}
  /\ \A j, k \in Live : peers[j].index = peers[k].index => j = k
  /\ \A a \in 0..(2^AddrBits - 1) : Find(a) \in byIdx \cup {0}
  /\ \A net \in Networks : KeyOf(byIp[net]) = claim[net]

\* Every peer frames, authenticates and rates as the device does: the private
\* key, the limiter and the AmneziaWG settings are the device's at every line
\* of every transaction, for peers added before and after a change.  What is a
\* peer's own, its preshared key, endpoint and keepalive, its own sections
\* sent: nothing of one section reaches the next.
PeersFollowDevice ==
  \A k \in Live : /\ peers[k].private = keyPair
                  /\ peers[k].limiter = limiter
                  /\ peers[k].settings = settings
                  /\ \A a \in Attrs : peers[k].attrs[a] \in {None, k}

\* A transaction that reports success has put all its AmneziaWG values in
\* force, with or without peer sections after them, unless a line could not be
\* read as text.
SuccessMeansApplied ==
  txn.at = "done" /\ ~txn.unread =>
    \A p \in Params : txn.awg[p] # None => settings.params[p] = txn.awg[p]

\* The clamp is the interface's MTU as last read, saturated and never 0,
\* unless the monitor is waiting to write it.
ClampFollowsMtu ==
  \E clamp \in {settings.mtu, refresh} :
    clamp = mtu \/ (clamp = MtuMax /\ mtu > MtuMax)
===============================================================================
