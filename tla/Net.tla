-------------------------------- MODULE Net ---------------------------------
(* kernel/net.c, dhcp.c and dns.c: how the machine gets its address and     *)
(* finds a host.  Frames arrive in the card's interrupt and are queued per  *)
(* port; dhcp_configure and dns_resolve run in the main context, polling    *)
(* the queue until an answer or a deadline.  Answers may be lost, delayed   *)
(* past the deadline, duplicated and reordered: `air` keeps every frame     *)
(* ever sent to us, and any of them may arrive, again or never.             *)
EXTENDS Integers, Sequences, FiniteSets

CONSTANTS Servers,    \* DHCP servers on the link; each is its own gateway and DNS
          Pool,       \* addresses they lease
          Hosts,      \* names
          ArpEntries, UdpQueue,
          IdMod,      \* DNS ids are a tick count modulo this
          Attempts,   \* tries of dhcp_configure
          MaxCalls    \* bound: calls of dhcp_configure and dns_resolve

VARIABLES cfg,      \* config
          arp,      \* arp_cache, oldest first
          port, queue,   \* the port bound, and its ring
          names,    \* the DNS cache, oldest first
          pc,       \* where the main context is
          xid,      \* the transaction: the tick count at the call
          try, opt, \* attempt, and the options parse() last wrote
          asked,    \* the name being resolved
          air,      \* frames sent to this machine
          leased    \* not in the code: what servers granted in the last DHCP transaction

netVars == <<cfg, arp, port, queue, names, pc, xid, try, opt, asked, air, leased>>

None == "none"
Unconfigured == [ip |-> None, gw |-> None, dns |-> None]
NoOptions == [gw |-> None, dns |-> None, server |-> None]
DnsCache == 2
Address(host) == <<"address of", host>>

\* A table of n entries with all of them in use gives up its oldest.
Room(cache, n) == IF Len(cache) >= n THEN Tail(cache) ELSE cache

-----------------------------------------------------------------------------
(* UDP ports.                                                              *)

net_udp_bind(p) == port' = p /\ queue' = <<>>
net_udp_unbind == port' = None /\ queue' = <<>>

\* A full ring drops the newest.
udp_deliver(f) ==
  queue' = IF port = f.port /\ Len(queue) < UdpQueue - 1 THEN Append(queue, f) ELSE queue

\* An entry for the same address is written over.
arp_store(ip) ==
  arp' = Append(Room(SelectSeq(arp, LAMBDA e : e.key # ip), ArpEntries), [key |-> ip])

\* Interrupt: a frame arrives.  Addressed to us, or broadcast.
netdev_receive ==
  \E f \in air :
    /\ \/ /\ f.kind = "arp"
          /\ arp_store(f.from) /\ UNCHANGED queue
       \/ /\ f.kind # "arp"
          /\ cfg.ip = None \/ f.to \in {"all", cfg.ip}
          /\ udp_deliver(f) /\ UNCHANGED arp
    /\ UNCHANGED <<cfg, port, names, pc, xid, try, opt, asked, air, leased>>

\* An entry older than its time to live is dropped when looked up.
ArpExpire == /\ \E i \in DOMAIN arp : arp' = SelectSeq(arp, LAMBDA e : e # arp[i])
             /\ UNCHANGED <<cfg, port, queue, names, pc, xid, try, opt, asked, air, leased>>

arp_find(ip) == \E i \in DOMAIN arp : arp[i].key = ip

-----------------------------------------------------------------------------
(* dhcp.c                                                                  *)

\* A server answers a broadcast DISCOVER with an address of its choice.
Offers == {[kind |-> "offer", port |-> "dhcp", to |-> "all", xid |-> x, ip |-> ip, server |-> s]
             : x \in {xid'}, ip \in Pool, s \in Servers}

SendDiscover == \E answers \in SUBSET Offers :
                  /\ \A a, b \in answers : a.server = b.server => a = b
                  /\ air' = air \cup answers

\* A REQUEST names its server; that one grants the address or refuses.
SendRequest(ip, s) ==
  \E grant \in {"ack", "nak"} :
    /\ air' = air \cup {[kind |-> grant, port |-> "dhcp", to |-> "all", xid |-> xid,
                         ip |-> ip, server |-> s]}
    /\ leased' = IF grant = "ack" THEN leased \cup {[ip |-> ip, server |-> s]}
                 ELSE leased


parse(m) == m.kind \in {"offer", "ack", "nak"} /\ m.xid = xid

dhcp_configure ==
  /\ pc = "idle" /\ xid < MaxCalls
  /\ xid' = xid + 1
  /\ net_udp_bind("dhcp")
  /\ cfg' = Unconfigured /\ opt' = NoOptions /\ try' = 1
  /\ SendDiscover
  /\ pc' = "offer" /\ leased' = {}
  /\ UNCHANGED <<arp, names, asked>>

\* The options of any answer to this transaction are kept, whatever its type.
Parsed(m) == IF parse(m) THEN [gw |-> m.server, dns |-> m.server, server |-> m.server] ELSE opt

Wanted(m, want) == parse(m) /\ m.kind = want
wait_for(want) == /\ pc = want /\ queue # <<>> /\ queue' = Tail(queue)
                  /\ opt' = Parsed(Head(queue))

WaitOn(want) == /\ wait_for(want) /\ ~Wanted(Head(queue), want)
                /\ UNCHANGED <<cfg, arp, port, names, pc, xid, try, asked, air, leased>>

TakeOffer == /\ wait_for("offer") /\ Wanted(Head(queue), "offer")
             /\ SendRequest(Head(queue).ip, opt'.server)
             /\ pc' = "ack"
             /\ UNCHANGED <<cfg, arp, port, names, xid, try, asked>>

TakeAck == /\ pc = "ack" /\ queue # <<>> /\ Wanted(Head(queue), "ack")
           /\ LET o == Parsed(Head(queue)) IN
              cfg' = [ip |-> Head(queue).ip, gw |-> o.gw, dns |-> o.dns]
           /\ net_udp_unbind /\ pc' = "idle"
           /\ opt' = NoOptions
           /\ UNCHANGED <<arp, names, xid, try, asked, air, leased>>

\* The deadline of a wait: the next attempt starts over with DISCOVER, under
\* the same transaction and with the options seen so far.
WaitTimesOut ==
  /\ pc \in {"offer", "ack"}
  /\ IF try < Attempts
     THEN /\ try' = try + 1 /\ pc' = "offer"
          /\ UNCHANGED <<xid, port, queue, opt>>
          /\ SendDiscover
     ELSE /\ net_udp_unbind /\ pc' = "idle" /\ opt' = NoOptions
          /\ UNCHANGED <<xid, try, air>>
  /\ UNCHANGED <<cfg, arp, names, asked, leased>>

-----------------------------------------------------------------------------
(* dns.c                                                                   *)

DnsId == xid % IdMod

CacheAnswer(h) == \E i \in DOMAIN names : names[i].key = h

\* The query goes out at once, or not at all: with no ARP entry for the server
\* an ARP request is sent instead and the query is forgotten.
dns_resolve(h) ==
  /\ pc = "idle" /\ xid < MaxCalls /\ cfg.dns # None /\ ~CacheAnswer(h)
  /\ xid' = xid + 1
  /\ net_udp_bind("dns")
  /\ asked' = h /\ pc' = "dns"
  /\ IF arp_find(cfg.dns)
     THEN \E bad \in BOOLEAN :
            air' = air \cup {[kind |-> "dns", port |-> "dns", to |-> cfg.ip, id |-> DnsId',
                              name |-> h, error |-> bad]}
     ELSE air' = air \cup {[kind |-> "arp", from |-> cfg.dns]}
  /\ UNCHANGED <<cfg, arp, names, try, opt, leased>>

AnswersAnyId(m) == m.kind = "dns"

Answers(m) == m.kind = "dns" /\ m.id = DnsId

\* The slot the answer goes to is a free or the oldest one, whatever name it has.
Remembered(h, ip) == Append(Room(names, DnsCache), [key |-> h, ip |-> ip])

\* A reply with another id is passed over; the first with ours ends the wait.
TakeReply ==
  /\ pc = "dns" /\ queue # <<>>
  /\ LET m == Head(queue) IN
     IF Answers(m)
     THEN /\ pc' = "idle" /\ net_udp_unbind
          /\ names' = IF m.error THEN names
                      ELSE Remembered(asked, Address(m.name))
     ELSE queue' = Tail(queue) /\ UNCHANGED <<pc, port, names>>
  /\ UNCHANGED <<cfg, arp, xid, try, opt, asked, air, leased>>

DnsTimesOut == /\ pc = "dns" /\ pc' = "idle" /\ net_udp_unbind
               /\ UNCHANGED <<cfg, arp, names, xid, try, opt, asked, air, leased>>

-----------------------------------------------------------------------------
NetInit == /\ cfg = Unconfigured /\ arp = <<>> /\ port = None /\ queue = <<>>
           /\ names = <<>> /\ pc = "idle" /\ xid = 0 /\ try = 1 /\ opt = NoOptions
           /\ asked = CHOOSE h \in Hosts : TRUE
           /\ air = {[kind |-> "arp", from |-> s] : s \in Servers}  \* their own ARP traffic
           /\ leased = {}

NetNext == \/ netdev_receive \/ ArpExpire
           \/ dhcp_configure \/ WaitOn("offer") \/ WaitOn("ack") \/ TakeOffer \/ TakeAck
           \/ WaitTimesOut
           \/ (\E h \in Hosts : dns_resolve(h)) \/ TakeReply \/ DnsTimesOut

NetSpec == NetInit /\ [][NetNext]_netVars

-----------------------------------------------------------------------------
\* The address in use was granted to this machine in the last transaction, by
\* the server whose gateway and DNS server it uses: no offer, refusal, answer to an earlier call or
\* answer of another server leaves a part of itself in the configuration
\* (wait_for and parse in dhcp.c).
ConfigWhole ==
  cfg.ip # None => /\ cfg.gw = cfg.dns
                   /\ [ip |-> cfg.ip, server |-> cfg.gw] \in leased

\* Every cached name has its own address: a reply to an earlier question that
\* arrives late is not taken for the answer to this one (dns_resolve).
NamesTrue == \A i \in DOMAIN names : names[i].ip = Address(names[i].key)
=============================================================================
